---------------------------- MODULE Spec2Model ----------------------------
(***************************************************************************)
(* A model of the PlainDoctor build pipeline (scripts/build-db.mjs, kept   *)
(* here as src/unnamed/part_007): the ingestion loop over the NPPES        *)
(* extract, the batched INSERT OR IGNORE into the providers table, and the *)
(* aggregation, index and stats steps that follow it.                      *)
(*                                                                         *)
(* Text is modelled as a sequence of one-character strings, so that trim,  *)
(* toLowerCase, slice, replace and slugify are computed character by       *)
(* character as the JavaScript computes them.  SQL NULL is the one-element *)
(* sequence NULL, which no text value equals.  JavaScript indices start at *)
(* 0 and the model's at 1; nothing else is shifted.                        *)
(***************************************************************************)
EXTENDS Integers, Sequences, FiniteSets, TLC

VARIABLES
  profile,          \* which family of extracts this run reads (an input)
  rawFiles,         \* the input files present in RAW_DIR          (line 12)
  dbFile,           \* what the file at DB_PATH holds              (line 13)
  hadStore,         \* history: a finished store was at DB_PATH at the start
  taxonomy,         \* const taxonomy = loadTaxonomy()            (line 120)
  phase,            \* position of main() in its sequence of steps
  exitCode,         \* process.exit code; 0 while running or finished
  header,           \* the header row as parseCSVLine returned it
  headerIndices,    \* let headerIndices = {}                     (line 198)
  lineNum,          \* let lineNum = 0                            (line 197)
  inserted,         \* let inserted = 0                           (line 199)
  skipped,          \* let skipped = 0                            (line 200)
  batchProviders,   \* let batchProviders = []                    (line 201)
  slugSeen,         \* const slugSeen = new Map()                 (line 203)
  providers,        \* table providers, in rowid order
  dbError,          \* TRUE once a statement has thrown
  specialties,      \* table specialties, in rowid order
  states,           \* table states, in rowid order
  cities,           \* table cities, in id order
  specialty_state,  \* table specialty_state, in rowid order
  indices,          \* the names of the indices created
  stats,            \* table _stats: key -> value
  lastLine,         \* history: the fields of the data line read last
  lastPushed,       \* history: whether that line's record was batched
  lastSlug,         \* history: the slug given to that record
  submitted,        \* history: every record pushed onto batchProviders, in order
  transactions,     \* history: the argument of each call of insertBatch, in order
  rowids,           \* the rowid of each providers row, as the exporter finds it
  seedFiles,        \* the files of SEED_DIR: name -> content
  fileNum,          \* exportLargeTable: let fileNum = 0        (export-seed 87)
  lastRowid,        \* exportLargeTable: let lastRowid = 0      (export-seed 88)
  exported,         \* exportLargeTable: let exported = 0       (export-seed 89)
  totalCount,       \* exportLargeTable: const totalCount       (export-seed 81)
  rangeQueries,     \* history: the calls of stmt.all in this run of the exporter
  chunks,           \* history: the rowids of the rows of each chunk written
  run,              \* which run of the exporter on this store this is
  prevSeed,         \* history: the files the run before this one left
  csvLine,          \* parseCSVLine: the line it is called on
  csvFields,        \* parseCSVLine: what it returned
  csvCarry,         \* history: the call before this one ended inside quotes
  taxData,          \* loadTaxonomy: const data = readFileSync(taxPath)  (line 27)
  now,              \* middleware: Date.now(), in ticks
  rateLimitMap,     \* middleware: const rateLimitMap = new Map()  (part_005 19)
  responseCache,    \* middleware: const responseCache = new Map() (part_005 45),
                    \*   its entries in insertion order
  pending,          \* middleware: per cache key, the requests at await next()
  served,           \* history: how many requests onRequest has been called for
  lastEvent,        \* history: what the last step of the server did
  passed            \* history: per ip, the requests of its current window that
                    \*   were not answered 429, /api/ ones and all

\* What the build and the seed exporter hold.
pipelineVars == <<profile, rawFiles, dbFile, hadStore, taxonomy, phase, exitCode, header, headerIndices, lineNum,
          inserted, skipped, batchProviders, slugSeen, providers, dbError,
          specialties, states, cities, specialty_state, indices, stats,
          lastLine, lastPushed, lastSlug, submitted, transactions,
          rowids, seedFiles, fileNum, lastRowid, exported, totalCount,
          rangeQueries, chunks, run, prevSeed>>

\* What the functions and the server checked apart from a pipeline run hold.
serverVars == <<now, rateLimitMap, responseCache, pending, served, lastEvent, passed>>

otherVars == <<csvLine, csvFields, csvCarry, taxData, serverVars>>

vars == <<pipelineVars, otherVars>>

\* What a build never touches: the seed exporter's state and otherVars.
exportVars == <<rowids, seedFiles, fileNum, lastRowid, exported, totalCount,
                rangeQueries, chunks, run, prevSeed, otherVars>>

\* Nothing has been parsed and the server has served nothing.
OthersIdle ==
  /\ csvLine = <<>>
  /\ csvFields = <<>>
  /\ csvCarry = FALSE
  /\ taxData = <<>>
  /\ now = 0
  /\ rateLimitMap = <<>>
  /\ responseCache = <<>>
  /\ pending = <<>>
  /\ served = 0
  /\ lastEvent = [kind |-> "none"]
  /\ passed = <<>>

----------------------------------------------------------------------------
(* Bounds of the model.                                                    *)

\* Data lines of an extract of the "ingest" family.
MaxLines == 3
\* Data lines of an extract of the "city" family.
MaxCityLines == 21
\* Data lines of an extract of the "specialty" family.
MaxSpecLines == 5
\* const BATCH_SIZE = 5000 (line 202), scaled down so that a batch fills.
BATCH_SIZE == 2

----------------------------------------------------------------------------
(* Text.                                                                   *)

NULL == <<"NULL">>

UPPER == <<"A","B","C","D","E","F","G","H","I","J","K","L","M",
           "N","O","P","Q","R","S","T","U","V","W","X","Y","Z">>
LOWER == <<"a","b","c","d","e","f","g","h","i","j","k","l","m",
           "n","o","p","q","r","s","t","u","v","w","x","y","z">>
DIGITS == <<"0","1","2","3","4","5","6","7","8","9">>

Range(s) == {s[i] : i \in DOMAIN s}

\* String.prototype.toLowerCase, one character.
LowerChar(c) ==
  IF \E i \in DOMAIN UPPER : UPPER[i] = c
    THEN LOWER[CHOOSE i \in DOMAIN UPPER : UPPER[i] = c]
    ELSE c

toLowerCase(s) == [i \in DOMAIN s |-> LowerChar(s[i])]

\* The character class [a-z0-9].
IsAlnum(c) == c \in Range(LOWER) \cup Range(DIGITS)

\* White space as String.prototype.trim sees it.
IsSpace(c) == c \in {" ", "\t", "\r", "\n"}

RECURSIVE TrimStart(_)
TrimStart(s) ==
  IF s # <<>> /\ IsSpace(Head(s)) THEN TrimStart(Tail(s)) ELSE s

RECURSIVE TrimEnd(_)
TrimEnd(s) ==
  IF s # <<>> /\ IsSpace(s[Len(s)]) THEN TrimEnd(SubSeq(s, 1, Len(s) - 1)) ELSE s

trim(s) == TrimEnd(TrimStart(s))

\* .replace(/"/g, '')
StripQuotes(s) == SelectSeq(s, LAMBDA c : c # "\"")

\* .slice(0, n)
SliceHead(s, n) == SubSeq(s, 1, IF Len(s) < n THEN Len(s) ELSE n)

\* .slice(-n)
SliceTail(s, n) == SubSeq(s, IF Len(s) < n THEN 1 ELSE Len(s) - n + 1, Len(s))

\* .replace(/[^a-z0-9]+/g, '-'): every run of other characters becomes one hyphen.
RECURSIVE CollapseRuns(_, _)
CollapseRuns(s, inRun) ==
  IF s = <<>> THEN <<>>
  ELSE IF IsAlnum(Head(s)) THEN <<Head(s)>> \o CollapseRuns(Tail(s), FALSE)
  ELSE IF inRun THEN CollapseRuns(Tail(s), TRUE)
  ELSE <<"-">> \o CollapseRuns(Tail(s), TRUE)

\* .replace(/^-|-$/g, ''): one hyphen off each end.
TrimHyphens(s) ==
  LET a == IF s # <<>> /\ Head(s) = "-" THEN Tail(s) ELSE s
  IN  IF a # <<>> /\ a[Len(a)] = "-" THEN SubSeq(a, 1, Len(a) - 1) ELSE a

slugify(str) == TrimHyphens(CollapseRuns(toLowerCase(str), FALSE))

\* A number in a template literal: its decimal digits.
RECURSIVE ToStr(_)
ToStr(n) ==
  IF n < 10 THEN <<DIGITS[n + 1]>>
  ELSE ToStr(n \div 10) \o <<DIGITS[(n % 10) + 1]>>

----------------------------------------------------------------------------
(* The columns of the extract that main() reads, by their header names.    *)

C_NPI       == "NPI"
C_ENTITY    == "Entity Type Code"
C_LAST      == "Provider Last Name (Legal Name)"
C_FIRST     == "Provider First Name"
C_CRED      == "Provider Credential Text"
C_ADDR      == "Provider First Line Business Practice Location Address"
C_CITY      == "Provider Business Practice Location Address City Name"
C_STATE     == "Provider Business Practice Location Address State Name"
C_ZIP       == "Provider Business Practice Location Address Postal Code"
C_PHONE     == "Provider Business Practice Location Address Telephone Number"
C_ENUM      == "Provider Enumeration Date"
C_DEACT     == "NPI Deactivation Date"
C_REACT     == "NPI Reactivation Date"
C_SEX       == "Provider Sex Code"
C_TAX       == "Healthcare Provider Taxonomy Code_1"

\* Faulty variant of needed: the family-name column is not asked for.
neededWithoutLast == <<C_NPI, C_ENTITY, C_FIRST>>

\* const needed = [...]                                           (line 223)
needed == <<C_NPI, C_ENTITY, C_FIRST, C_LAST>>

\* const VALID_STATES = new Set([...])                        (lines 95-102)
VALID_STATES ==
  { <<"A","L">>, <<"A","K">>, <<"A","Z">>, <<"A","R">>, <<"C","A">>,
    <<"C","O">>, <<"C","T">>, <<"D","E">>, <<"F","L">>, <<"G","A">>,
    <<"H","I">>, <<"I","D">>, <<"I","L">>, <<"I","N">>, <<"I","A">>,
    <<"K","S">>, <<"K","Y">>, <<"L","A">>, <<"M","E">>, <<"M","D">>,
    <<"M","A">>, <<"M","I">>, <<"M","N">>, <<"M","S">>, <<"M","O">>,
    <<"M","T">>, <<"N","E">>, <<"N","V">>, <<"N","H">>, <<"N","J">>,
    <<"N","M">>, <<"N","Y">>, <<"N","C">>, <<"N","D">>, <<"O","H">>,
    <<"O","K">>, <<"O","R">>, <<"P","A">>, <<"R","I">>, <<"S","C">>,
    <<"S","D">>, <<"T","N">>, <<"T","X">>, <<"U","T">>, <<"V","T">>,
    <<"V","A">>, <<"W","A">>, <<"W","V">>, <<"W","I">>, <<"W","Y">>,
    <<"D","C">>, <<"P","R">>, <<"G","U">>, <<"V","I">>, <<"A","S">>,
    <<"M","P">> }

\* const STATE_NAMES = {...}                               (lines 104-117)
STATE_NAMES ==
  ( <<"A","L">> :> <<"A","l","a","b","a","m","a">> ) @@
  ( <<"A","K">> :> <<"A","l","a","s","k","a">> ) @@
  ( <<"A","Z">> :> <<"A","r","i","z","o","n","a">> ) @@
  ( <<"A","R">> :> <<"A","r","k","a","n","s","a","s">> ) @@
  ( <<"C","A">> :> <<"C","a","l","i","f","o","r","n","i","a">> ) @@
  ( <<"C","O">> :> <<"C","o","l","o","r","a","d","o">> ) @@
  ( <<"C","T">> :> <<"C","o","n","n","e","c","t","i","c","u","t">> ) @@
  ( <<"D","E">> :> <<"D","e","l","a","w","a","r","e">> ) @@
  ( <<"F","L">> :> <<"F","l","o","r","i","d","a">> ) @@
  ( <<"G","A">> :> <<"G","e","o","r","g","i","a">> ) @@
  ( <<"H","I">> :> <<"H","a","w","a","i","i">> ) @@
  ( <<"I","D">> :> <<"I","d","a","h","o">> ) @@
  ( <<"I","L">> :> <<"I","l","l","i","n","o","i","s">> ) @@
  ( <<"I","N">> :> <<"I","n","d","i","a","n","a">> ) @@
  ( <<"I","A">> :> <<"I","o","w","a">> ) @@
  ( <<"K","S">> :> <<"K","a","n","s","a","s">> ) @@
  ( <<"K","Y">> :> <<"K","e","n","t","u","c","k","y">> ) @@
  ( <<"L","A">> :> <<"L","o","u","i","s","i","a","n","a">> ) @@
  ( <<"M","E">> :> <<"M","a","i","n","e">> ) @@
  ( <<"M","D">> :> <<"M","a","r","y","l","a","n","d">> ) @@
  ( <<"M","A">> :> <<"M","a","s","s","a","c","h","u","s","e","t","t","s">> ) @@
  ( <<"M","I">> :> <<"M","i","c","h","i","g","a","n">> ) @@
  ( <<"M","N">> :> <<"M","i","n","n","e","s","o","t","a">> ) @@
  ( <<"M","S">> :> <<"M","i","s","s","i","s","s","i","p","p","i">> ) @@
  ( <<"M","O">> :> <<"M","i","s","s","o","u","r","i">> ) @@
  ( <<"M","T">> :> <<"M","o","n","t","a","n","a">> ) @@
  ( <<"N","E">> :> <<"N","e","b","r","a","s","k","a">> ) @@
  ( <<"N","V">> :> <<"N","e","v","a","d","a">> ) @@
  ( <<"N","H">> :> <<"N","e","w"," ","H","a","m","p","s","h","i","r","e">> ) @@
  ( <<"N","J">> :> <<"N","e","w"," ","J","e","r","s","e","y">> ) @@
  ( <<"N","M">> :> <<"N","e","w"," ","M","e","x","i","c","o">> ) @@
  ( <<"N","Y">> :> <<"N","e","w"," ","Y","o","r","k">> ) @@
  ( <<"N","C">> :> <<"N","o","r","t","h"," ","C","a","r","o","l","i","n","a">> ) @@
  ( <<"N","D">> :> <<"N","o","r","t","h"," ","D","a","k","o","t","a">> ) @@
  ( <<"O","H">> :> <<"O","h","i","o">> ) @@
  ( <<"O","K">> :> <<"O","k","l","a","h","o","m","a">> ) @@
  ( <<"O","R">> :> <<"O","r","e","g","o","n">> ) @@
  ( <<"P","A">> :> <<"P","e","n","n","s","y","l","v","a","n","i","a">> ) @@
  ( <<"R","I">> :> <<"R","h","o","d","e"," ","I","s","l","a","n","d">> ) @@
  ( <<"S","C">> :> <<"S","o","u","t","h"," ","C","a","r","o","l","i","n","a">> ) @@
  ( <<"S","D">> :> <<"S","o","u","t","h"," ","D","a","k","o","t","a">> ) @@
  ( <<"T","N">> :> <<"T","e","n","n","e","s","s","e","e">> ) @@
  ( <<"T","X">> :> <<"T","e","x","a","s">> ) @@
  ( <<"U","T">> :> <<"U","t","a","h">> ) @@
  ( <<"V","T">> :> <<"V","e","r","m","o","n","t">> ) @@
  ( <<"V","A">> :> <<"V","i","r","g","i","n","i","a">> ) @@
  ( <<"W","A">> :> <<"W","a","s","h","i","n","g","t","o","n">> ) @@
  ( <<"W","V">> :> <<"W","e","s","t"," ","V","i","r","g","i","n","i","a">> ) @@
  ( <<"W","I">> :> <<"W","i","s","c","o","n","s","i","n">> ) @@
  ( <<"W","Y">> :> <<"W","y","o","m","i","n","g">> ) @@
  ( <<"D","C">> :> <<"D","i","s","t","r","i","c","t"," ","o","f"," ","C","o","l","u","m","b","i","a">> ) @@
  ( <<"P","R">> :> <<"P","u","e","r","t","o"," ","R","i","c","o">> ) @@
  ( <<"G","U">> :> <<"G","u","a","m">> ) @@
  ( <<"V","I">> :> <<"V","i","r","g","i","n"," ","I","s","l","a","n","d","s">> ) @@
  ( <<"A","S">> :> <<"A","m","e","r","i","c","a","n"," ","S","a","m","o","a">> ) @@
  ( <<"M","P">> :> <<"N","o","r","t","h","e","r","n"," ","M","a","r","i","a","n","a"," ","I","s","l","a","n","d","s">> )

----------------------------------------------------------------------------
(* Inputs: header rows, taxonomy maps and data lines.  A data line is laid *)
(* out in the column order of its extract's header row.                    *)

HeaderFull ==
  <<C_NPI, C_ENTITY, C_LAST, C_FIRST, C_CRED, C_ADDR, C_CITY, C_STATE,
    C_ZIP, C_PHONE, C_ENUM, C_DEACT, C_REACT, C_SEX, C_TAX>>

Columns == Range(HeaderFull)

Reverse(s) == [i \in DOMAIN s |-> s[Len(s) + 1 - i]]

Without(s, c) == SelectSeq(s, LAMBDA x : x # c)

\* Header rows: the vendor's order, another order, one lacking each required
\* column, and one lacking an optional column.
HeadersLacking == {Without(HeaderFull, c) : c \in {C_NPI, C_ENTITY, C_FIRST, C_LAST}}

Headers(p) ==
  IF p = "ingest"
    THEN {HeaderFull, Reverse(HeaderFull), Without(HeaderFull, C_STATE)}
         \cup HeadersLacking \cup {Without(Reverse(HeaderFull), C_ENTITY)}
    ELSE {HeaderFull, Without(HeaderFull, C_NPI)}

\* Taxonomy codes and the maps loadTaxonomy can return.
T1 == <<"2","0","7","Q","A","0","X">>
T2 == <<"2","0","7","Q","A","0","Y">>
T3 == <<"2","0","8","D","0","0","X">>
T4 == <<"3","6","3","L","0","0","X">>
T5 == <<"3","6","3","L","0","0","Z">>
TUnknown == <<"1","9","3","2","0","0","X">>

FamMed == <<"F","a","m"," ","M","e","d">>

TaxPlain ==
  ( T1 :> [name |-> FamMed, category |-> <<"M","D">>] ) @@
  ( T3 :> [name |-> <<"N","u","r","s","e">>, category |-> <<"R","N">>] )

\* Three names that slugify alike, two of them on codes sharing their first
\* six characters, and two names that are the slug of a suffixed row.
TaxColliding ==
  ( T1 :> [name |-> FamMed, category |-> <<"M","D">>] ) @@
  ( T2 :> [name |-> <<"F","a","m"," "," ","M","e","d">>, category |-> <<"M","D">>] ) @@
  ( T3 :> [name |-> <<"F","A","M","-","M","E","D">>, category |-> <<"M","D">>] ) @@
  ( T4 :> [name |-> FamMed \o <<" ","2","0","8","D","0","0">>, category |-> <<"R","N">>] ) @@
  ( T5 :> [name |-> FamMed \o <<" ","(","2","0","8","d","0","0",")">>, category |-> <<"R","N">>] )

Taxonomies(p) == IF p = "specialty" THEN {TaxColliding} ELSE {TaxPlain}

\* Identifiers; the fourth is shorter than the registry issues them.
N1 == ToStr(1000001234)
N2 == ToStr(1000011234)
N3 == ToStr(2000001234)
NShort == <<"1">>
FreshNpi(n) == ToStr(1000000000 + n)

DATE == <<"0","1","/","0","2","/","2","0","2","0">>

Base ==
  ( C_NPI    :> N1 ) @@
  ( C_ENTITY :> <<"1">> ) @@
  ( C_LAST   :> <<"B","O">> ) @@
  ( C_FIRST  :> <<"A","L">> ) @@
  ( C_CRED   :> <<"M",".","D",".">> ) @@
  ( C_ADDR   :> <<"1"," ","E","L","M">> ) @@
  ( C_CITY   :> <<"B","A","Y">> ) @@
  ( C_STATE  :> <<"C","A">> ) @@
  ( C_ZIP    :> <<"9","0","0","0","1","2","2","3","4">> ) @@
  ( C_PHONE  :> <<>> ) @@
  ( C_ENUM   :> DATE ) @@
  ( C_DEACT  :> <<>> ) @@
  ( C_REACT  :> <<>> ) @@
  ( C_SEX    :> <<"F">> ) @@
  ( C_TAX    :> T1 )

\* rec with the columns of ch changed.
With(rec, ch) == [c \in DOMAIN rec |-> IF c \in DOMAIN ch THEN ch[c] ELSE rec[c]]

\* Records that pass every filter.
GoodRecs ==
  { Base,
    With(Base, C_NPI :> N2),
    With(Base, (C_FIRST :> <<"C","Y">>) @@ (C_CRED :> <<>>)),
    With(Base, (C_NPI :> NShort) @@ (C_LAST :> <<"B","O","-","1","2","3","4">>)),
    With(Base, (C_NPI :> N3) @@ (C_FIRST :> <<" ","\"","A","l","\""," ">>)
               @@ (C_STATE :> <<"N","Y">>) @@ (C_TAX :> T3)),
    With(Base, (C_DEACT :> DATE) @@ (C_REACT :> DATE)) }

\* Records that fail one filter, or two.
BadRecs ==
  { With(Base, C_ENTITY :> <<"2">>),
    With(Base, C_ENTITY :> <<>>),
    With(Base, C_DEACT :> DATE),
    With(Base, C_STATE :> <<"Z","Z">>),
    With(Base, C_STATE :> <<"c","a">>),
    With(Base, C_CITY :> <<>>),
    With(Base, C_CITY :> <<" "," ">>),
    With(Base, C_TAX :> TUnknown),
    With(Base, C_TAX :> <<>>),
    With(Base, C_NPI :> <<>>),
    With(Base, C_FIRST :> <<"\"","\"">>),
    With(Base, C_LAST :> <<>>),
    With(Base, (C_ENTITY :> <<"2">>) @@ (C_STATE :> <<"Z","Z">>)),
    With(Base, (C_DEACT :> DATE) @@ (C_CITY :> <<>>)),
    With(Base, (C_TAX :> TUnknown) @@ (C_NPI :> <<>>)),
    With(Base, (C_ENTITY :> <<"2">>) @@ (C_LAST :> <<>>)) }

\* The "city" family: extracts sorted by city, one fresh identifier a line.
CityList == << <<"B","A","Y">>, <<"B","a","y">>, <<"R","I","O">> >>

\* The "specialty" family: extracts sorted by taxonomy code.
CodeList == <<T1, T2, T3, T4, T5>>

RankIn(list, x) ==
  IF \E i \in DOMAIN list : list[i] = x
    THEN CHOOSE i \in DOMAIN list : list[i] = x
    ELSE 0

\* The line's fields as parseCSVLine returns them: one per header column,
\* less the last `cut` of them for a line that ends early.
Layout(rec, hdr, cut) == [i \in 1..(Len(hdr) - cut) |-> rec[hdr[i]]]

MaxDataLines(p) ==
  IF p = "ingest" THEN MaxLines
  ELSE IF p = "city" THEN MaxCityLines
  ELSE MaxSpecLines

----------------------------------------------------------------------------
(* The ingestion loop (lines 213-298).                                     *)

\* headerIndices[h] = i for every header cell, a later cell of the same name
\* overwriting an earlier one.                                (lines 217-221)
BuildHeaderIndices(hdr) ==
  [h \in Range(hdr) |->
     CHOOSE i \in DOMAIN hdr :
       hdr[i] = h /\ \A j \in DOMAIN hdr : hdr[j] = h => j <= i]

\* n in headerIndices, for every n of needed.                 (lines 223-229)
HeaderComplete(idx) == \A i \in DOMAIN needed : needed[i] \in DOMAIN idx

\* const get = (col) => (fields[headerIndices[col]] || '').trim().replace(/"/g, '')
get(idx, fields, col) ==
  IF col \in DOMAIN idx /\ idx[col] \in DOMAIN fields
    THEN StripQuotes(trim(fields[idx[col]]))
    ELSE <<>>

\* The six filters, in the order main() applies them.         (lines 236-259)
IsIndividual(idx, f) == get(idx, f, C_ENTITY) = <<"1">>

\* Faulty variant of IsActive: any deactivation date rejects, reactivated or not.
IsActiveIgnoringReactivation(idx, f) == get(idx, f, C_DEACT) = <<>>

IsActive(idx, f) ==
  ~ (get(idx, f, C_DEACT) # <<>> /\ get(idx, f, C_REACT) = <<>>)

HasValidState(idx, f) == get(idx, f, C_STATE) \in VALID_STATES

HasCity(idx, f) == get(idx, f, C_CITY) # <<>>

HasTaxonomy(tax, idx, f) == get(idx, f, C_TAX) \in DOMAIN tax

HasNames(idx, f) ==
  /\ get(idx, f, C_NPI) # <<>>
  /\ get(idx, f, C_FIRST) # <<>>
  /\ get(idx, f, C_LAST) # <<>>

\* 0 when the line survives, else the number of the filter that skips it.
SkipReason(tax, idx, f) ==
  IF ~ IsIndividual(idx, f) THEN 1
  ELSE IF ~ IsActive(idx, f) THEN 2
  ELSE IF ~ HasValidState(idx, f) THEN 3
  ELSE IF ~ HasCity(idx, f) THEN 4
  ELSE IF ~ HasTaxonomy(tax, idx, f) THEN 5
  ELSE IF ~ HasNames(idx, f) THEN 6
  ELSE 0

\* get(col) || null
OrNull(s) == IF s = <<>> THEN NULL ELSE s

\* let baseSlug = slugify(`${firstName}-${lastName}-${npi.slice(-4)}`)
baseSlugOf(firstName, lastName, npi) ==
  slugify(firstName \o <<"-">> \o lastName \o <<"-">> \o SliceTail(npi, 4))

\* while (slugSeen.has(slug)) { slug = `${baseSlug}-${suffix}`; suffix++ }
RECURSIVE SuffixLoop(_, _, _, _)
SuffixLoop(seen, baseSlug, slug, suffix) ==
  IF slug \in seen
    THEN SuffixLoop(seen, baseSlug, baseSlug \o <<"-">> \o ToStr(suffix), suffix + 1)
    ELSE slug

\* Faulty variant of UniqueSlug: the candidate is used without looking it up.
UniqueSlugUnchecked(seen, baseSlug) == baseSlug

\* Faulty variant of UniqueSlug: the suffix counter starts at 2.
UniqueSlugFromTwo(seen, baseSlug) ==
  IF baseSlug \in seen
    THEN SuffixLoop(seen, baseSlug, baseSlug \o <<"-">> \o ToStr(2), 3)
    ELSE baseSlug

UniqueSlug(seen, baseSlug) == SuffixLoop(seen, baseSlug, baseSlug, 1)

\* The object pushed onto batchProviders.                     (lines 256-283)
ProviderRecord(tax, idx, f, slug) ==
  [ npi              |-> get(idx, f, C_NPI),
    first_name       |-> get(idx, f, C_FIRST),
    last_name        |-> get(idx, f, C_LAST),
    credential       |-> OrNull(get(idx, f, C_CRED)),
    gender           |-> OrNull(get(idx, f, C_SEX)),
    specialty        |-> tax[get(idx, f, C_TAX)].name,
    specialty_code   |-> get(idx, f, C_TAX),
    city             |-> get(idx, f, C_CITY),
    state            |-> get(idx, f, C_STATE),
    zip              |-> SliceHead(get(idx, f, C_ZIP), 5),
    phone            |-> OrNull(get(idx, f, C_PHONE)),
    address_line1    |-> OrNull(get(idx, f, C_ADDR)),
    enumeration_date |-> OrNull(get(idx, f, C_ENUM)),
    slug             |-> slug ]

\* Faulty variant of insertProvider: INSERT OR REPLACE, the later record winning.
insertOrReplaceProvider(db, p) ==
  [db EXCEPT !.rows = Append(SelectSeq(db.rows, LAMBDA r : r.npi # p.npi), p)]

\* Faulty variant of insertProvider: a plain INSERT, which throws on a
\* primary key that is already there.
insertProviderStrict(db, p) ==
  IF \E i \in DOMAIN db.rows : db.rows[i].npi = p.npi
    THEN [db EXCEPT !.error = TRUE]
    ELSE [db EXCEPT !.rows = Append(db.rows, p)]

\* INSERT OR IGNORE INTO providers: a row whose npi (the primary key) is
\* already there is dropped and the statement succeeds.       (lines 186-189)
insertProvider(db, p) ==
  IF \E i \in DOMAIN db.rows : db.rows[i].npi = p.npi
    THEN db
    ELSE [db EXCEPT !.rows = Append(db.rows, p)]

\* db.transaction: run insertProvider for each record of the batch, in
\* order; a statement that throws rolls the transaction back. (lines 205-211)
RECURSIVE RunInserts(_, _)
RunInserts(db, batch) ==
  IF batch = <<>> \/ db.error THEN db
  ELSE RunInserts(insertProvider(db, Head(batch)), Tail(batch))

insertBatch(rows, batch) ==
  LET done == RunInserts([rows |-> rows, error |-> FALSE], batch)
  IN  IF done.error THEN [rows |-> rows, error |-> TRUE] ELSE done

\* The lines an extract of the family can hold next.  The "city" and
\* "specialty" families are sorted extracts: at most one rejected line, the
\* first, then accepted ones by city (by taxonomy code), the k-th of them
\* with the k-th identifier.
NextRecs ==
  IF profile = "ingest" THEN GoodRecs \cup BadRecs
  ELSE IF profile = "city" THEN
    LET last == IF submitted = <<>> THEN 1
                ELSE RankIn(CityList, submitted[Len(submitted)].city)
    IN  { With(Base, (C_NPI :> FreshNpi(Len(submitted) + 1)) @@ (C_CITY :> CityList[i]))
            : i \in last..Len(CityList) }
        \cup (IF lineNum = 1 THEN {With(Base, C_ENTITY :> <<"2">>)} ELSE {})
  ELSE
    LET last == IF submitted = <<>> THEN 1
                ELSE RankIn(CodeList, submitted[Len(submitted)].specialty_code)
    IN  { With(Base, (C_NPI :> FreshNpi(Len(submitted) + 1)) @@ (C_TAX :> CodeList[i]))
            : i \in last..Len(CodeList) }
        \cup (IF lineNum = 1 THEN {With(Base, C_TAX :> TUnknown)} ELSE {})

\* A line may end early only in the "ingest" family.
Cuts == IF profile = "ingest" THEN {0, Len(header) - 2} ELSE {0}

MoreLines == lineNum - 1 < MaxDataLines(profile)

aggVars == <<specialties, states, cities, specialty_state, indices, stats>>

\* The files main() looks for in RAW_DIR.
TAXONOMY_FILE == "nucc_taxonomy.csv"
NPPES_FILE == "npidata_pfile.csv"

startVars == <<profile, rawFiles, hadStore, taxonomy, header, headerIndices,
               lineNum, inserted, skipped, batchProviders, slugSeen, providers,
               dbError, aggVars, lastLine, lastPushed, lastSlug, submitted,
               transactions>>

\* loadTaxonomy() with the taxonomy file in place.              (lines 21-53)
LoadTaxonomy ==
  /\ phase = "Start"
  /\ TAXONOMY_FILE \in rawFiles
  /\ phase' = "TaxonomyLoaded"
  /\ UNCHANGED <<startVars, dbFile, exitCode>>
  /\ UNCHANGED exportVars

\* loadTaxonomy() without it: process.exit(1).                  (lines 23-26)
TaxonomyMissing ==
  /\ phase = "Start"
  /\ TAXONOMY_FILE \notin rawFiles
  /\ phase' = "Aborted"
  /\ exitCode' = 1
  /\ UNCHANGED <<startVars, dbFile>>
  /\ UNCHANGED exportVars

\* findNppesFile() with an extract in place.                    (lines 81-92)
FindNppesFile ==
  /\ phase = "TaxonomyLoaded"
  /\ NPPES_FILE \in rawFiles
  /\ phase' = "ExtractFound"
  /\ UNCHANGED <<startVars, dbFile, exitCode>>
  /\ UNCHANGED exportVars

\* findNppesFile() without one: process.exit(1).                (lines 85-89)
ExtractMissing ==
  /\ phase = "TaxonomyLoaded"
  /\ NPPES_FILE \notin rawFiles
  /\ phase' = "Aborted"
  /\ exitCode' = 1
  /\ UNCHANGED <<startVars, dbFile>>
  /\ UNCHANGED exportVars

\* The file at DB_PATH is unlinked if it exists, a new database is opened
\* at DB_PATH and its empty tables are created.               (lines 124-183)
OpenDatabase ==
  /\ phase = "ExtractFound"
  /\ dbFile' = "new"
  /\ phase' = "AwaitHeader"
  /\ UNCHANGED <<startVars, exitCode>>
  /\ UNCHANGED exportVars

\* lineNum === 1 with every needed column present.            (lines 216-231)
ReadHeader ==
  /\ phase = "AwaitHeader"
  /\ \E hdr \in Headers(profile) :
       /\ HeaderComplete(BuildHeaderIndices(hdr))
       /\ header' = hdr
       /\ headerIndices' = BuildHeaderIndices(hdr)
  /\ lineNum' = lineNum + 1
  /\ phase' = "Streaming"
  /\ UNCHANGED <<profile, rawFiles, dbFile, hadStore, taxonomy, exitCode, inserted, skipped, batchProviders,
                 slugSeen, providers, dbError, aggVars,
                 lastLine, lastPushed, lastSlug, submitted, transactions>>
  /\ UNCHANGED exportVars

\* lineNum === 1 with a needed column missing: process.exit(1). (lines 224-229)
HeaderAbort ==
  /\ phase = "AwaitHeader"
  /\ \E hdr \in Headers(profile) :
       /\ ~ HeaderComplete(BuildHeaderIndices(hdr))
       /\ header' = hdr
       /\ headerIndices' = BuildHeaderIndices(hdr)
  /\ lineNum' = lineNum + 1
  /\ phase' = "Aborted"
  /\ exitCode' = 1
  /\ UNCHANGED <<profile, rawFiles, dbFile, hadStore, taxonomy, inserted, skipped, batchProviders,
                 slugSeen, providers, dbError, aggVars,
                 lastLine, lastPushed, lastSlug, submitted, transactions>>
  /\ UNCHANGED exportVars

\* A data line that a filter rejects: skipped++; continue.    (lines 233-259)
SkipLine ==
  /\ phase = "Streaming"
  /\ MoreLines
  /\ \E rec \in NextRecs, cut \in Cuts :
       LET f == Layout(rec, header, cut)
       IN  /\ SkipReason(taxonomy, headerIndices, f) # 0
           /\ lastLine' = f
  /\ lineNum' = lineNum + 1
  /\ skipped' = skipped + 1
  /\ lastPushed' = FALSE
  /\ lastSlug' = <<>>
  /\ UNCHANGED <<profile, rawFiles, dbFile, hadStore, taxonomy, phase, exitCode, header, headerIndices,
                 inserted, batchProviders, slugSeen, providers, dbError,
                 aggVars, submitted, transactions>>
  /\ UNCHANGED exportVars

\* Faulty variant of BatchFull: the batch is let grow one record too far.
BatchOverfull(batch) == Len(batch) > BATCH_SIZE

\* batchProviders.length >= BATCH_SIZE                            (line 285)
BatchFull(batch) == Len(batch) >= BATCH_SIZE

\* A data line that survives: its slug is resolved, its record pushed, and
\* a full batch inserted.                                     (lines 233-292)
AcceptLine ==
  /\ phase = "Streaming"
  /\ MoreLines
  /\ \E rec \in NextRecs, cut \in Cuts :
       LET f     == Layout(rec, header, cut)
           slug  == UniqueSlug(slugSeen,
                      baseSlugOf(get(headerIndices, f, C_FIRST),
                                 get(headerIndices, f, C_LAST),
                                 get(headerIndices, f, C_NPI)))
           p     == ProviderRecord(taxonomy, headerIndices, f, slug)
           batch == Append(batchProviders, p)
           db    == insertBatch(providers, batch)
       IN  /\ SkipReason(taxonomy, headerIndices, f) = 0
           /\ lastLine' = f
           /\ lastSlug' = slug
           /\ slugSeen' = slugSeen \cup {slug}
           /\ submitted' = Append(submitted, p)
           /\ IF BatchFull(batch)
                THEN /\ transactions' = Append(transactions, batch)
                     /\ providers' = db.rows
                     /\ dbError' = db.error
                     /\ phase' = IF db.error THEN "Aborted" ELSE phase
                     /\ exitCode' = IF db.error THEN 1 ELSE exitCode
                     /\ inserted' = IF db.error THEN inserted ELSE inserted + Len(batch)
                     /\ batchProviders' = IF db.error THEN batch ELSE <<>>
                ELSE /\ batchProviders' = batch
                     /\ UNCHANGED <<providers, dbError, phase, exitCode, inserted,
                                    transactions>>
  /\ lineNum' = lineNum + 1
  /\ lastPushed' = TRUE
  /\ UNCHANGED <<profile, rawFiles, dbFile, hadStore, taxonomy, header, headerIndices, skipped, aggVars>>
  /\ UNCHANGED exportVars

\* Faulty variant of BatchPending: a lone last record is left behind.
BatchPendingAboveOne(batch) == Len(batch) > 1

\* batchProviders.length > 0                                      (line 295)
BatchPending(batch) == Len(batch) > 0

\* The stream ends: the partial batch is inserted.            (lines 293-300)
EndOfStream ==
  /\ phase \in {"AwaitHeader", "Streaming"}
  /\ LET db == insertBatch(providers, batchProviders)
     IN  IF BatchPending(batchProviders)
           THEN /\ transactions' = Append(transactions, batchProviders)
                /\ providers' = db.rows
                /\ dbError' = db.error
                /\ phase' = IF db.error THEN "Aborted" ELSE "Done"
                /\ exitCode' = IF db.error THEN 1 ELSE exitCode
                /\ inserted' = IF db.error THEN inserted
                               ELSE inserted + Len(batchProviders)
           ELSE /\ phase' = "Done"
                /\ UNCHANGED <<providers, dbError, exitCode, inserted, transactions>>
  /\ UNCHANGED <<profile, rawFiles, dbFile, hadStore, taxonomy, header, headerIndices, lineNum, skipped,
                 batchProviders, slugSeen, aggVars,
                 lastLine, lastPushed, lastSlug, submitted>>
  /\ UNCHANGED exportVars

----------------------------------------------------------------------------
(* The aggregation tables (lines 302-408).                                 *)

\* HAVING cnt >= 10                                               (line 373)
CITY_MIN == 10

\* GROUP BY ... COUNT(*): one pass over the rows' keys, a counter a key.
RECURSIVE Tally(_, _)
Tally(keys, acc) ==
  IF keys = <<>> THEN acc
  ELSE LET k == Head(keys)
       IN  Tally(Tail(keys),
                 IF k \in DOMAIN acc THEN [acc EXCEPT ![k] = @ + 1]
                 ELSE acc @@ (k :> 1))

\* Faulty variant of GroupCount: the first row of each group is not counted.
GroupCountLessOne(keys) ==
  LET c == Tally(keys, <<>>) IN [k \in DOMAIN c |-> c[k] - 1]

GroupCount(keys) == Tally(keys, <<>>)

\* The orders ORDER BY cnt DESC may return the groups in: SQL leaves the
\* order of groups of equal count open.
OrdersByCountDesc(counts) ==
  LET n == Cardinality(DOMAIN counts)
  IN  { o \in [1..n -> DOMAIN counts] :
          /\ \A k \in DOMAIN counts : \E i \in 1..n : o[i] = k
          /\ \A i, j \in 1..n : i < j => counts[o[i]] >= counts[o[j]] }

\* Every order of the members of a set: a SELECT with no ORDER BY.
OrdersOf(S) ==
  LET n == Cardinality(S)
  IN  { o \in [1..n -> S] : \A k \in S : \E i \in 1..n : o[i] = k }

\* INSERT INTO specialties ... GROUP BY specialty_code ORDER BY cnt DESC, the
\* bare column specialty taken from a row of the group.       (lines 304-310)
InsertSpecialties(rows, order) ==
  LET counts == GroupCount([i \in DOMAIN rows |-> rows[i].specialty_code])
  IN  [i \in DOMAIN order |->
         [ code           |-> order[i],
           name           |-> rows[CHOOSE r \in DOMAIN rows :
                                     rows[r].specialty_code = order[i]].specialty,
           category       |-> NULL,
           slug           |-> <<>>,
           provider_count |-> counts[order[i]] ]]

\* Faulty variant of UpdateSpecialty: the taxonomy map is not consulted and
\* every row is filled from a provider row of its code.
UpdateSpecialtyFromProvider(tax, rows, row) ==
  IF \E r \in DOMAIN rows : rows[r].specialty_code = row.code
    THEN LET prov == rows[CHOOSE r \in DOMAIN rows :
                            /\ rows[r].specialty_code = row.code
                            /\ \A q \in DOMAIN rows :
                                 rows[q].specialty_code = row.code => r <= q]
         IN  [row EXCEPT !.name = prov.specialty,
                         !.category = NULL,
                         !.slug = slugify(prov.specialty)]
    ELSE row

\* updateSpecBatch: name, category and slug from the taxonomy map, else from
\* a provider row of that code.                               (lines 313-328)
UpdateSpecialty(tax, rows, row) ==
  IF row.code \in DOMAIN tax
    THEN [row EXCEPT !.name = tax[row.code].name,
                     !.category = tax[row.code].category,
                     !.slug = slugify(tax[row.code].name)]
    ELSE IF \E r \in DOMAIN rows : rows[r].specialty_code = row.code
      THEN LET prov == rows[CHOOSE r \in DOMAIN rows :
                              /\ rows[r].specialty_code = row.code
                              /\ \A q \in DOMAIN rows :
                                   rows[q].specialty_code = row.code => r <= q]
           IN  [row EXCEPT !.name = prov.specialty,
                           !.category = NULL,
                           !.slug = slugify(prov.specialty)]
      ELSE row

UpdateSpecialties(tax, rows, specs) ==
  [i \in DOMAIN specs |-> UpdateSpecialty(tax, rows, specs[i])]

\* SELECT slug ... GROUP BY slug HAVING cnt > 1                (lines 331-333)
DupSlugs(specs) ==
  LET counts == GroupCount([i \in DOMAIN specs |-> specs[i].slug])
  IN  {sl \in DOMAIN counts : counts[sl] > 1}

\* `${dup.slug}-${specs[i].code.slice(0, 6).toLowerCase()}`       (line 337)
SuffixedSlug(dupSlug, code) ==
  dupSlug \o <<"-">> \o toLowerCase(SliceHead(code, 6))

\* One turn of the loop over dupSlugs: of the rows that hold dup now, taken
\* by provider_count descending, every row but the first is renamed.  The
\* table is in provider_count order, so its own order is such an order.
\*                                                            (lines 335-339)
RenameGroup(specs, dup) ==
  LET hit   == SelectSeq([i \in DOMAIN specs |-> i], LAMBDA i : specs[i].slug = dup)
      first == IF hit = <<>> THEN 0 ELSE Head(hit)
  IN  [i \in DOMAIN specs |->
         IF specs[i].slug = dup /\ i # first
           THEN [specs[i] EXCEPT !.slug = SuffixedSlug(dup, specs[i].code)]
           ELSE specs[i]]

\* for (const dup of dupSlugs) ..., each turn reading what the turns before
\* it wrote.                                                  (lines 334-340)
RECURSIVE ResolveDupSlugs(_, _)
ResolveDupSlugs(specs, dups) ==
  IF dups = <<>> THEN specs
  ELSE ResolveDupSlugs(RenameGroup(specs, Head(dups)), Tail(dups))

\* INSERT INTO states ... GROUP BY state, then name and slug from
\* STATE_NAMES[row.abbr] || row.abbr.                         (lines 346-362)
StateName(abbr) == IF abbr \in DOMAIN STATE_NAMES THEN STATE_NAMES[abbr] ELSE abbr

InsertStates(rows, order) ==
  LET counts == GroupCount([i \in DOMAIN rows |-> rows[i].state])
  IN  [i \in DOMAIN order |->
         [ abbr            |-> order[i],
           name            |-> StateName(order[i]),
           slug            |-> slugify(StateName(order[i])),
           provider_count  |-> counts[order[i]],
           specialty_count |-> Cardinality({rows[r].specialty_code :
                                 r \in {q \in DOMAIN rows : rows[q].state = order[i]}}) ]]

\* Faulty variant of CityCounts: HAVING cnt > 10.
CityCountsAbove(rows) ==
  LET counts == Tally([i \in DOMAIN rows |-> <<rows[i].city, rows[i].state>>], <<>>)
      kept   == {k \in DOMAIN counts : counts[k] > CITY_MIN}
  IN  [k \in kept |-> counts[k]]

\* GROUP BY city, state HAVING cnt >= 10                      (lines 368-375)
CityCounts(rows) ==
  LET counts == GroupCount([i \in DOMAIN rows |-> <<rows[i].city, rows[i].state>>])
      kept   == {k \in DOMAIN counts : counts[k] >= CITY_MIN}
  IN  [k \in kept |-> counts[k]]

InsertCities(counts, order) ==
  [i \in DOMAIN order |->
     [ id             |-> i,
       city           |-> order[i][1],
       state          |-> order[i][2],
       slug           |-> <<>>,
       provider_count |-> counts[order[i]] ]]

\* Faulty variant of CitySlug: the candidate is used without looking it up.
CitySlugUnchecked(seen, base) == base

\* while (citySlugSeen.has(slug)) { slug = `${base}-${suffix}`; suffix++ }
RECURSIVE CitySuffixLoop(_, _, _, _)
CitySuffixLoop(seen, base, slug, suffix) ==
  IF slug \in seen
    THEN CitySuffixLoop(seen, base, base \o <<"-">> \o ToStr(suffix), suffix + 1)
    ELSE slug

CitySlug(seen, base) == CitySuffixLoop(seen, base, base, 1)

\* updateCityBatch: the rows in id order, against citySlugSeen. (lines 377-393)
RECURSIVE UpdateCities(_, _, _)
UpdateCities(rowsLeft, seen, done) ==
  IF rowsLeft = <<>> THEN done
  ELSE LET row  == Head(rowsLeft)
           base == slugify(row.city \o <<"-">> \o row.state)
           slug == CitySlug(seen, base)
       IN  UpdateCities(Tail(rowsLeft), seen \cup {slug},
                        Append(done, [row EXCEPT !.slug = slug]))

\* INSERT INTO specialty_state ... GROUP BY specialty_code, state (lines 399-405)
InsertSpecialtyState(counts, order) ==
  [i \in DOMAIN order |->
     [ specialty_code |-> order[i][1],
       state          |-> order[i][2],
       provider_count |-> counts[order[i]] ]]

\* const indices = [...]                                      (lines 412-424)
IndexNames ==
  { "idx_providers_state", "idx_providers_specialty", "idx_providers_city_state",
    "idx_providers_last_name", "idx_providers_slug", "idx_specialties_slug",
    "idx_states_slug", "idx_cities_state", "idx_cities_slug",
    "idx_specialty_state_spec", "idx_specialty_state_state" }

\* Faulty variant of ComputeStats: city_count is read from specialties.
ComputeStatsCityFromSpecialties(p, sp, st, ci) ==
  ( "provider_count"  :> ToStr(Len(p)) ) @@
  ( "specialty_count" :> ToStr(Len(sp)) ) @@
  ( "state_count"     :> ToStr(Len(st)) ) @@
  ( "city_count"      :> ToStr(Len(sp)) )

\* const statsQueries = [...], each value String(COUNT(*)).    (lines 433-445)
ComputeStats(p, sp, st, ci) ==
  ( "provider_count"  :> ToStr(Len(p)) ) @@
  ( "specialty_count" :> ToStr(Len(sp)) ) @@
  ( "state_count"     :> ToStr(Len(st)) ) @@
  ( "city_count"      :> ToStr(Len(ci)) )

ingestVars == <<profile, rawFiles, dbFile, hadStore, taxonomy, exitCode, header, headerIndices, lineNum,
                inserted, skipped, batchProviders, slugSeen, providers, dbError,
                lastLine, lastPushed, lastSlug, submitted, transactions>>

BuildSpecialties ==
  /\ phase = "Done"
  /\ \E order \in OrdersByCountDesc(
                    GroupCount([i \in DOMAIN providers |-> providers[i].specialty_code])) :
       LET named == UpdateSpecialties(taxonomy, providers,
                                      InsertSpecialties(providers, order))
       IN  \E dups \in OrdersOf(DupSlugs(named)) :
             specialties' = ResolveDupSlugs(named, dups)
  /\ phase' = "SpecialtiesBuilt"
  /\ UNCHANGED <<ingestVars, states, cities, specialty_state, indices, stats>>
  /\ UNCHANGED exportVars

BuildStates ==
  /\ phase = "SpecialtiesBuilt"
  /\ \E order \in OrdersByCountDesc(
                    GroupCount([i \in DOMAIN providers |-> providers[i].state])) :
       states' = InsertStates(providers, order)
  /\ phase' = "StatesBuilt"
  /\ UNCHANGED <<ingestVars, specialties, cities, specialty_state, indices, stats>>
  /\ UNCHANGED exportVars

BuildCities ==
  /\ phase = "StatesBuilt"
  /\ \E order \in OrdersByCountDesc(CityCounts(providers)) :
       cities' = UpdateCities(InsertCities(CityCounts(providers), order), {}, <<>>)
  /\ phase' = "CitiesBuilt"
  /\ UNCHANGED <<ingestVars, specialties, states, specialty_state, indices, stats>>
  /\ UNCHANGED exportVars

BuildSpecialtyState ==
  /\ phase = "CitiesBuilt"
  /\ LET counts == GroupCount([i \in DOMAIN providers |->
                                 <<providers[i].specialty_code, providers[i].state>>])
     IN  \E order \in OrdersByCountDesc(counts) :
           specialty_state' = InsertSpecialtyState(counts, order)
  /\ phase' = "Aggregated"
  /\ UNCHANGED <<ingestVars, specialties, states, cities, indices, stats>>
  /\ UNCHANGED exportVars

CreateIndices ==
  /\ phase = "Aggregated"
  /\ indices' = IndexNames
  /\ phase' = "Indexed"
  /\ UNCHANGED <<ingestVars, specialties, states, cities, specialty_state, stats>>
  /\ UNCHANGED exportVars

PopulateStats ==
  /\ phase = "Indexed"
  /\ stats' = ComputeStats(providers, specialties, states, cities)
  /\ phase' = "Finished"
  /\ UNCHANGED <<ingestVars, specialties, states, cities, specialty_state, indices>>
  /\ UNCHANGED exportVars

----------------------------------------------------------------------------
(* Specifications: one run of main() over an extract of each family.       *)

\* Whether an earlier run left a store at DB_PATH; only the "ingest" family
\* runs both with and without one.
PreviousStore(p) == IF p = "ingest" THEN BOOLEAN ELSE {TRUE}

InitOf(p) ==
  /\ profile = p
  /\ rawFiles \in SUBSET {TAXONOMY_FILE, NPPES_FILE}
  /\ hadStore \in PreviousStore(p)
  /\ dbFile = IF hadStore THEN "previous" ELSE "absent"
  /\ taxonomy \in Taxonomies(p)
  /\ phase = "Start"
  /\ exitCode = 0
  /\ header = <<>>
  /\ headerIndices = <<>>
  /\ lineNum = 0
  /\ inserted = 0
  /\ skipped = 0
  /\ batchProviders = <<>>
  /\ slugSeen = {}
  /\ providers = <<>>
  /\ dbError = FALSE
  /\ specialties = <<>>
  /\ states = <<>>
  /\ cities = <<>>
  /\ specialty_state = <<>>
  /\ indices = {}
  /\ stats = <<>>
  /\ lastLine = <<>>
  /\ lastPushed = FALSE
  /\ lastSlug = <<>>
  /\ submitted = <<>>
  /\ transactions = <<>>
  /\ rowids = <<>>
  /\ seedFiles = <<>>
  /\ fileNum = 0
  /\ lastRowid = 0
  /\ exported = 0
  /\ totalCount = 0
  /\ rangeQueries = 0
  /\ chunks = <<>>
  /\ run = 0
  /\ prevSeed = <<>>
  /\ OthersIdle

Init == InitOf("ingest")

InitCity == InitOf("city")

InitSpecialty == InitOf("specialty")

Next ==
  \/ LoadTaxonomy
  \/ TaxonomyMissing
  \/ FindNppesFile
  \/ ExtractMissing
  \/ OpenDatabase
  \/ ReadHeader
  \/ HeaderAbort
  \/ SkipLine
  \/ AcceptLine
  \/ EndOfStream
  \/ BuildSpecialties
  \/ BuildStates
  \/ BuildCities
  \/ BuildSpecialtyState
  \/ CreateIndices
  \/ PopulateStats

Spec == Init /\ [][Next]_vars

SpecCity == InitCity /\ [][Next]_vars

SpecSpecialty == InitSpecialty /\ [][Next]_vars

----------------------------------------------------------------------------
(* The seed exporter (scripts/export-seed.mjs): the tables of a finished    *)
(* store written out as chunk files of SQL, and the replay of those files   *)
(* into an empty store.                                                     *)

\* const SMALL_CHUNK = 1000 (line 12), scaled down so that a table spans files.
SMALL_CHUNK == 2
\* const LARGE_CHUNK = 2000 (line 13), scaled down likewise.
LARGE_CHUNK == 2
\* Rows of the providers table of a store the exporter is run on.
MaxExportRows == 5
\* The largest rowid of such a table.
MaxRowid == 7

\* The characters of the file names and sort keys, in code-unit order.
ASCII == <<" ", "'", "(", ")", "-", ".">> \o DIGITS \o UPPER \o <<"_">> \o LOWER

Code(c) == CHOOSE i \in DOMAIN ASCII : ASCII[i] = c

\* a < b, comparing code units from the left.
RECURSIVE TextLess(_, _)
TextLess(a, b) ==
  IF b = <<>> THEN FALSE
  ELSE IF a = <<>> THEN TRUE
  ELSE IF Head(a) = Head(b) THEN TextLess(Tail(a), Tail(b))
  ELSE Code(Head(a)) < Code(Head(b))

\* String.prototype.padStart(width, '0')
padStart(s, width) ==
  IF Len(s) >= width THEN s ELSE [i \in 1..(width - Len(s)) |-> "0"] \o s

P_SPECIALTIES == <<"0","1","_","s","p","e","c","i","a","l","t","i","e","s">>
P_STATES == <<"0","2","_","s","t","a","t","e","s">>
P_CITIES == <<"0","3","_","c","i","t","i","e","s">>
P_SPECIALTY_STATE == <<"0","4","_","s","p","e","c","i","a","l","t","y","_","s","t","a","t","e">>
P_PROVIDERS == <<"0","5","_","p","r","o","v","i","d","e","r","s">>
INDEX_FILE == <<"9","9","_","i","n","d","i","c","e","s",".","s","q","l">>

\* `${SEED_DIR}/${filePrefix}_${pad}.sql`                      (lines 50, 65)
FileName(filePrefix, num, width) ==
  filePrefix \o <<"_">> \o padStart(ToStr(num), width) \o <<".","s","q","l">>

\* Object.keys(rows[0]): the columns of a table in declared order.
ColumnsOf(tableName) ==
  CASE tableName = "providers" ->
         <<"npi", "first_name", "last_name", "credential", "gender", "specialty",
           "specialty_code", "city", "state", "zip", "phone", "address_line1",
           "enumeration_date", "slug">>
    [] tableName = "specialties" ->
         <<"code", "name", "category", "slug", "provider_count">>
    [] tableName = "states" ->
         <<"abbr", "name", "slug", "provider_count", "specialty_count">>
    [] tableName = "cities" ->
         <<"id", "city", "state", "slug", "provider_count">>
    [] tableName = "specialty_state" ->
         <<"specialty_code", "state", "provider_count">>

\* The columns declared INTEGER, which the driver returns as numbers.
NumberColumns == {"id", "provider_count", "specialty_count"}

\* The primary key of each table.
PrimaryKey(tableName) ==
  CASE tableName = "providers" -> <<"npi">>
    [] tableName = "specialties" -> <<"code">>
    [] tableName = "states" -> <<"abbr">>
    [] tableName = "cities" -> <<"id">>
    [] tableName = "specialty_state" -> <<"specialty_code", "state">>

\* row[col] as the driver returns it: null, a number or a string.
JsValue(row, col) ==
  IF col \in NumberColumns THEN [t |-> "number", v |-> row[col]]
  ELSE IF row[col] = NULL THEN [t |-> "null"]
  ELSE [t |-> "string", v |-> row[col]]

\* String(val)
String(val) == IF val.t = "number" THEN ToStr(val.v) ELSE val.v

\* replace(/'/g, "''")
RECURSIVE DoubleQuotes(_)
DoubleQuotes(s) ==
  IF s = <<>> THEN <<>>
  ELSE (IF Head(s) = "'" THEN <<"'", "'">> ELSE <<Head(s)>>) \o DoubleQuotes(Tail(s))

NULL_LITERAL == <<"N","U","L","L">>

\* Faulty variant of escapeSQL: the quotes inside a value are not doubled.
escapeSQLPlain(val) ==
  IF val.t = "null" THEN NULL_LITERAL
  ELSE <<"'">> \o String(val) \o <<"'">>

\* escapeSQL                                                  (lines 26-29)
escapeSQL(val) ==
  IF val.t = "null" THEN NULL_LITERAL
  ELSE <<"'">> \o DoubleQuotes(String(val)) \o <<"'">>

\* chunk.map(row => columns.map(col => escapeSQL(row[col])))   (lines 60-62)
ValuesOf(columns, chunk) ==
  [i \in DOMAIN chunk |->
     [j \in DOMAIN columns |-> escapeSQL(JsValue(chunk[i], columns[j]))]]

\* A chunk file: DROP TABLE IF EXISTS and CREATE TABLE when withCreate, then
\* one INSERT INTO tableName (columns) VALUES ...            (lines 52-64)
DataFile(tableName, withCreate, chunk) ==
  [ kind    |-> "data",
    create  |-> withCreate,
    table   |-> tableName,
    columns |-> ColumnsOf(tableName),
    values  |-> ValuesOf(ColumnsOf(tableName), chunk) ]

Min(a, b) == IF a < b THEN a ELSE b

\* The orders ORDER BY may return rows in: sorted by the key, rows of equal
\* key in any order.                                              (line 38)
\* before is the set of pairs <<i, j>> such that row i sorts before row j.
OrderBy(rows, before) ==
  LET n == Len(rows)
      perms == { p \in [1..n -> 1..n] :
                   /\ \A i, j \in 1..n : i # j => p[i] # p[j]
                   /\ \A i, j \in 1..n : i < j => <<p[j], p[i]>> \notin before }
  IN  { [i \in 1..n |-> rows[p[i]]] : p \in perms }

\* ORDER BY provider_count DESC                       (lines 131, 133, 134)
ByCountDesc(rows) ==
  { <<i, j>> \in (DOMAIN rows) \X (DOMAIN rows) :
      rows[i].provider_count > rows[j].provider_count }

\* ORDER BY name COLLATE NOCASE                                  (line 132)
ByNameNocase(rows) ==
  { <<i, j>> \in (DOMAIN rows) \X (DOMAIN rows) :
      TextLess(toLowerCase(rows[i].name), toLowerCase(rows[j].name)) }

\* if (i === 0): the chunk of exportSmallTable that gets the preamble.
\*                                                            (lines 53-58)
SmallPreamble(i) == i = 0

\* Faulty variant of LargePreamble: every chunk gets the preamble.
LargePreambleAlways(num) == TRUE

\* if (fileNum === 1 && createSql): the chunk of exportLargeTable that gets
\* the preamble; the table exists, so createSql is its text. (lines 99-102)
LargePreamble(num) == num = 1

\* for (let i = 0; i < rows.length; i += SMALL_CHUNK), i counted from 0.
\*                                                            (lines 47-66)
RECURSIVE SmallChunks(_, _, _, _, _)
SmallChunks(tableName, rows, filePrefix, i, num) ==
  IF i >= Len(rows) THEN <<>>
  ELSE LET chunk == SubSeq(rows, i + 1, Min(i + SMALL_CHUNK, Len(rows)))
       IN  (FileName(filePrefix, num + 1, 4) :> DataFile(tableName, SmallPreamble(i), chunk))
           @@ SmallChunks(tableName, rows, filePrefix, i + SMALL_CHUNK, num + 1)

\* exportSmallTable: the files it writes, for the rows in the order the
\* query returned them; none for an empty table.              (lines 37-70)
exportSmallTable(tableName, rows, filePrefix) ==
  IF Len(rows) = 0 THEN <<>>
  ELSE SmallChunks(tableName, rows, filePrefix, 0, 0)

\* SELECT * FROM providers WHERE rowid > ? ORDER BY rowid LIMIT ?: the
\* positions of the rows returned.                            (lines 85, 93)
RangeQuery(ids, last, limit) ==
  LET hit == SelectSeq([i \in DOMAIN ids |-> i], LAMBDA i : ids[i] > last)
  IN  SubSeq(hit, 1, Min(limit, Len(hit)))

\* Faulty variant of NextCursor: the cursor moves by the chunk size.
NextCursorFixedStep(rows, ids, lastRow, last) == last + LARGE_CHUNK

\* lastRowidRow?.rowid || lastRowid + LARGE_CHUNK, the rowid looked up by
\* the npi of the chunk's last row.                         (lines 112-114)
NextCursor(rows, ids, lastRow, last) ==
  IF \E i \in DOMAIN rows : rows[i].npi = lastRow.npi /\ ids[i] # 0
    THEN ids[CHOOSE i \in DOMAIN rows : rows[i].npi = lastRow.npi]
    ELSE last + LARGE_CHUNK

\* Faulty variant of ExportedAfter: files are counted, not rows.
ExportedFiles(count, chunk) == count + 1

\* exported += chunk.length                                       (line 116)
ExportedAfter(count, chunk) == count + Len(chunk)

\* const indices = [...]: each CREATE INDEX IF NOT EXISTS with the table it
\* is ON.                                                   (lines 140-152)
SeedIndices ==
  << [name |-> "idx_providers_state", table |-> "providers"],
     [name |-> "idx_providers_specialty", table |-> "providers"],
     [name |-> "idx_providers_city_state", table |-> "providers"],
     [name |-> "idx_providers_last_name", table |-> "providers"],
     [name |-> "idx_providers_slug", table |-> "providers"],
     [name |-> "idx_specialties_slug", table |-> "specialties"],
     [name |-> "idx_states_slug", table |-> "states"],
     [name |-> "idx_cities_state", table |-> "cities"],
     [name |-> "idx_cities_slug", table |-> "cities"],
     [name |-> "idx_specialty_state_spec", table |-> "specialty_state"],
     [name |-> "idx_specialty_state_state", table |-> "specialty_state"] >>

exportFixed == <<profile, rawFiles, dbFile, hadStore, taxonomy, header,
                 headerIndices, lineNum, inserted, skipped, batchProviders,
                 slugSeen, providers, dbError, aggVars, lastLine, lastPushed,
                 lastSlug, submitted, transactions, rowids, otherVars>>

largeVars == <<fileNum, lastRowid, exported, totalCount, rangeQueries, chunks>>

\* No database at DB_PATH: process.exit(1).                   (lines 15-18)
ExportNoDatabase ==
  /\ phase = "ExportStart"
  /\ dbFile = "absent"
  /\ phase' = "Aborted"
  /\ exitCode' = 1
  /\ UNCHANGED <<exportFixed, largeVars, seedFiles, run, prevSeed>>

\* The seed directory is emptied and the database opened.     (lines 20-24)
ExportOpen ==
  /\ phase = "ExportStart"
  /\ dbFile # "absent"
  /\ seedFiles' = <<>>
  /\ rangeQueries' = 0
  /\ chunks' = <<>>
  /\ phase' = "ExportSpecialties"
  /\ UNCHANGED <<exportFixed, exitCode, fileNum, lastRowid, exported, totalCount,
                 run, prevSeed>>

\* exportSmallTable('specialties', 'provider_count DESC', ...)   (line 131)
ExportSpecialties ==
  /\ phase = "ExportSpecialties"
  /\ \E rows \in OrderBy(specialties, ByCountDesc(specialties)) :
       seedFiles' = exportSmallTable("specialties", rows, P_SPECIALTIES) @@ seedFiles
  /\ phase' = "ExportStates"
  /\ UNCHANGED <<exportFixed, exitCode, largeVars, run, prevSeed>>

\* exportSmallTable('states', 'name COLLATE NOCASE', ...)        (line 132)
ExportStates ==
  /\ phase = "ExportStates"
  /\ \E rows \in OrderBy(states, ByNameNocase(states)) :
       seedFiles' = exportSmallTable("states", rows, P_STATES) @@ seedFiles
  /\ phase' = "ExportCities"
  /\ UNCHANGED <<exportFixed, exitCode, largeVars, run, prevSeed>>

\* exportSmallTable('cities', 'provider_count DESC', ...)        (line 133)
ExportCities ==
  /\ phase = "ExportCities"
  /\ \E rows \in OrderBy(cities, ByCountDesc(cities)) :
       seedFiles' = exportSmallTable("cities", rows, P_CITIES) @@ seedFiles
  /\ phase' = "ExportSpecialtyState"
  /\ UNCHANGED <<exportFixed, exitCode, largeVars, run, prevSeed>>

\* exportSmallTable('specialty_state', 'provider_count DESC', ...) (line 134)
ExportSpecialtyState ==
  /\ phase = "ExportSpecialtyState"
  /\ \E rows \in OrderBy(specialty_state, ByCountDesc(specialty_state)) :
       seedFiles' = exportSmallTable("specialty_state", rows, P_SPECIALTY_STATE)
                      @@ seedFiles
  /\ phase' = "ExportProviders"
  /\ UNCHANGED <<exportFixed, exitCode, largeVars, run, prevSeed>>

\* exportLargeTable up to its loop: nothing to do for an empty table, else
\* the row count is read and the cursor starts at 0.          (lines 74-89)
ExportLargeStart ==
  /\ phase = "ExportProviders"
  /\ IF providers = <<>>
       THEN /\ phase' = "ExportIndices"
            /\ UNCHANGED <<fileNum, lastRowid, exported, totalCount>>
       ELSE /\ phase' = "ExportChunks"
            /\ totalCount' = Len(providers)
            /\ fileNum' = 0
            /\ lastRowid' = 0
            /\ exported' = 0
  /\ UNCHANGED <<exportFixed, exitCode, seedFiles, rangeQueries, chunks, run, prevSeed>>

\* One turn of while (exported < totalCount): a range query past the
\* cursor, a chunk file, the cursor moved to the chunk's last row; an empty
\* chunk ends the loop.                                      (lines 91-120)
ExportChunk ==
  /\ phase = "ExportChunks"
  /\ exported < totalCount
  /\ rangeQueries' = rangeQueries + 1
  /\ LET at    == RangeQuery(rowids, lastRowid, LARGE_CHUNK)
         chunk == [i \in DOMAIN at |-> providers[at[i]]]
     IN  IF chunk = <<>>
           THEN /\ phase' = "ExportIndices"
                /\ UNCHANGED <<fileNum, seedFiles, lastRowid, exported, chunks>>
           ELSE /\ fileNum' = fileNum + 1
                /\ seedFiles' = (FileName(P_PROVIDERS, fileNum + 1, 5) :>
                                   DataFile("providers", LargePreamble(fileNum + 1), chunk))
                                @@ seedFiles
                /\ lastRowid' = NextCursor(providers, rowids, chunk[Len(chunk)],
                                           lastRowid)
                /\ exported' = ExportedAfter(exported, chunk)
                /\ chunks' = Append(chunks, [i \in DOMAIN at |-> rowids[at[i]]])
                /\ phase' = phase
  /\ UNCHANGED <<exportFixed, exitCode, totalCount, run, prevSeed>>

\* The loop test fails: exportLargeTable returns.           (lines 91, 122)
ExportLargeEnd ==
  /\ phase = "ExportChunks"
  /\ exported >= totalCount
  /\ phase' = "ExportIndices"
  /\ UNCHANGED <<exportFixed, exitCode, largeVars, seedFiles, run, prevSeed>>

\* 99_indices.sql is written and the database closed.       (lines 139-156)
WriteIndices ==
  /\ phase = "ExportIndices"
  /\ seedFiles' = (INDEX_FILE :> [kind |-> "indices", stmts |-> SeedIndices])
                  @@ seedFiles
  /\ phase' = "Exported"
  /\ UNCHANGED <<exportFixed, exitCode, largeVars, run, prevSeed>>

\* The exporter is started once more on the same store; what the first run
\* wrote is remembered and is still in the seed directory.
RunAgain ==
  /\ phase = "Exported"
  /\ run = 1
  /\ run' = 2
  /\ prevSeed' = seedFiles
  /\ phase' = "ExportStart"
  /\ UNCHANGED <<exportFixed, exitCode, largeVars, seedFiles>>

----------------------------------------------------------------------------
(* Replaying seed files into an empty store: what SQLite does with the      *)
(* statements the exporter wrote.                                           *)

\* The text between the quotes of a string literal, '' read as one quote;
\* a quote on its own ends the literal early and the statement fails.
RECURSIVE Undouble(_)
Undouble(s) ==
  IF s = <<>> THEN [ok |-> TRUE, text |-> <<>>]
  ELSE IF Head(s) = "'"
    THEN IF Len(s) >= 2 /\ s[2] = "'"
           THEN LET r == Undouble(SubSeq(s, 3, Len(s)))
                IN  [ok |-> r.ok, text |-> <<"'">> \o r.text]
           ELSE [ok |-> FALSE, text |-> <<>>]
    ELSE LET r == Undouble(Tail(s))
         IN  [ok |-> r.ok, text |-> <<Head(s)>> \o r.text]

\* The value of a literal: NULL, or the text of a string literal.
ParseLiteral(lit) ==
  IF lit = NULL_LITERAL THEN [ok |-> TRUE, text |-> NULL]
  ELSE IF Len(lit) >= 2 /\ lit[1] = "'" /\ lit[Len(lit)] = "'"
    THEN Undouble(SubSeq(lit, 2, Len(lit) - 1))
    ELSE [ok |-> FALSE, text |-> <<>>]

IsDigits(s) == s # <<>> /\ \A i \in DOMAIN s : s[i] \in Range(DIGITS)

RECURSIVE ToNum(_, _)
ToNum(s, acc) ==
  IF s = <<>> THEN acc
  ELSE ToNum(Tail(s), 10 * acc + (CHOOSE d \in DOMAIN DIGITS : DIGITS[d] = Head(s)) - 1)

\* The row an INSERT stores: a column of INTEGER affinity turns text that
\* reads as an integer into that integer.
StoredRow(columns, texts) ==
  [c \in Range(columns) |->
     LET j == CHOOSE k \in DOMAIN columns : columns[k] = c
     IN  IF c \in NumberColumns /\ texts[j] # NULL /\ IsDigits(texts[j])
           THEN ToNum(texts[j], 0)
           ELSE texts[j]]

KeyOf(tableName, row) ==
  [k \in DOMAIN PrimaryKey(tableName) |-> row[PrimaryKey(tableName)[k]]]

\* INSERT INTO ... VALUES row by row; a repeated primary key fails.
RECURSIVE InsertRows(_, _, _)
InsertRows(tableName, have, rows) ==
  IF rows = <<>> THEN [ok |-> TRUE, rows |-> have]
  ELSE IF \E i \in DOMAIN have : KeyOf(tableName, have[i]) = KeyOf(tableName, Head(rows))
    THEN [ok |-> FALSE, rows |-> have]
    ELSE InsertRows(tableName, Append(have, Head(rows)), Tail(rows))

\* One chunk file replayed: the table dropped and created anew if the file
\* says so, then its rows inserted into the table, which must exist.
ReplayData(db, file) ==
  LET tabs   == IF file.create THEN (file.table :> <<>>) @@ db.tables ELSE db.tables
      parsed == [i \in DOMAIN file.values |->
                   [j \in DOMAIN file.columns |-> ParseLiteral(file.values[i][j])]]
      wellFormed == \A i \in DOMAIN parsed : \A j \in DOMAIN file.columns : parsed[i][j].ok
      rows   == [i \in DOMAIN parsed |->
                   StoredRow(file.columns,
                             [j \in DOMAIN file.columns |-> parsed[i][j].text])]
  IN  IF file.table \notin DOMAIN tabs \/ ~ wellFormed
        THEN [db EXCEPT !.error = TRUE]
        ELSE LET done == InsertRows(file.table, tabs[file.table], rows)
             IN  IF done.ok
                   THEN [db EXCEPT !.tables = (file.table :> done.rows) @@ tabs]
                   ELSE [db EXCEPT !.error = TRUE]

\* The index file replayed: each CREATE INDEX needs its table.
ReplayIndices(db, file) ==
  IF \A i \in DOMAIN file.stmts : file.stmts[i].table \in DOMAIN db.tables
    THEN [db EXCEPT !.indices = @ \cup {file.stmts[i].name : i \in DOMAIN file.stmts}]
    ELSE [db EXCEPT !.error = TRUE]

\* The names of a set of files in filename order.
RECURSIVE SortedNames(_)
SortedNames(S) ==
  IF S = {} THEN <<>>
  ELSE LET first == CHOOSE a \in S : \A b \in S \ {a} : TextLess(a, b)
       IN  <<first>> \o SortedNames(S \ {first})

RECURSIVE ReplayFrom(_, _, _)
ReplayFrom(db, files, names) ==
  IF names = <<>> \/ db.error THEN db
  ELSE LET file == files[Head(names)]
       IN  ReplayFrom(IF file.kind = "data" THEN ReplayData(db, file)
                      ELSE ReplayIndices(db, file),
                      files, Tail(names))

\* The files of names replayed in filename order into an empty store.
Replay(files, names) ==
  ReplayFrom([tables |-> <<>>, indices |-> {}, error |-> FALSE], files,
             SortedNames(names))

----------------------------------------------------------------------------
(* The stores the exporter is run on.  It reads each table on its own, so   *)
(* the tables of a store are drawn one by one.                              *)

\* The k-th row of a providers table: one with a quote in the family name,
\* one whose given name is the text NULL, every other with no credential.
ExportProvider(k) ==
  LET rec == With(Base,
               (C_NPI :> FreshNpi(k)) @@
               (IF k = 2 THEN C_LAST :> <<"O","'","N","e","i","l">> ELSE C_LAST :> Base[C_LAST]) @@
               (IF k = 3 THEN C_FIRST :> NULL_LITERAL ELSE C_FIRST :> Base[C_FIRST]) @@
               (IF k % 2 = 1 THEN C_CRED :> <<>> ELSE C_CRED :> Base[C_CRED]))
      idx == BuildHeaderIndices(HeaderFull)
      f   == Layout(rec, HeaderFull, 0)
  IN  ProviderRecord(TaxPlain, idx, f,
                     UniqueSlug({}, baseSlugOf(get(idx, f, C_FIRST), get(idx, f, C_LAST),
                                               get(idx, f, C_NPI))))

\* The strictly increasing sequences of n rowids up to MaxRowid.
RowidsOf(n) ==
  { s \in [1..n -> 1..MaxRowid] : \A i, j \in 1..n : i < j => s[i] < s[j] }

\* A specialties table of three rows, two of them of equal provider_count.
StoreSpecialties ==
  << [code |-> T1, name |-> FamMed, category |-> <<"M","D">>,
      slug |-> slugify(FamMed), provider_count |-> 2],
     [code |-> T3, name |-> <<"N","u","r","s","e">>, category |-> NULL,
      slug |-> slugify(<<"N","u","r","s","e">>), provider_count |-> 2],
     [code |-> T4, name |-> <<"A","n","e","s","t","h","e","s","i","a">>, category |-> <<"R","N">>,
      slug |-> slugify(<<"A","n","e","s","t","h","e","s","i","a">>), provider_count |-> 1] >>

StoreStates ==
  << [abbr |-> <<"C","A">>, name |-> StateName(<<"C","A">>),
      slug |-> slugify(StateName(<<"C","A">>)), provider_count |-> 4,
      specialty_count |-> 3],
     [abbr |-> <<"A","L">>, name |-> StateName(<<"A","L">>),
      slug |-> slugify(StateName(<<"A","L">>)), provider_count |-> 1,
      specialty_count |-> 1] >>

\* The cities table: empty when no city reaches CITY_MIN providers.
StoreCities ==
  { <<>>,
    << [id |-> 1, city |-> <<"B","A","Y">>, state |-> <<"C","A">>,
        slug |-> <<"b","a","y","-","c","a">>, provider_count |-> 12],
       [id |-> 2, city |-> <<"B","a","y">>, state |-> <<"C","A">>,
        slug |-> <<"b","a","y","-","c","a","-","1">>, provider_count |-> 10] >> }

StoreSpecialtyState ==
  << [specialty_code |-> T1, state |-> <<"C","A">>, provider_count |-> 2],
     [specialty_code |-> T3, state |-> <<"C","A">>, provider_count |-> 1] >>

InitExport ==
  /\ profile = "export"
  /\ rawFiles = {TAXONOMY_FILE, NPPES_FILE}
  /\ hadStore \in BOOLEAN
  /\ dbFile = IF hadStore THEN "previous" ELSE "absent"
  /\ taxonomy = TaxPlain
  /\ phase = "ExportStart"
  /\ exitCode = 0
  /\ header = <<>>
  /\ headerIndices = <<>>
  /\ lineNum = 0
  /\ inserted = 0
  /\ skipped = 0
  /\ batchProviders = <<>>
  /\ slugSeen = {}
  /\ dbError = FALSE
  /\ indices = IndexNames
  /\ lastLine = <<>>
  /\ lastPushed = FALSE
  /\ lastSlug = <<>>
  /\ submitted = <<>>
  /\ transactions = <<>>
  /\ \E n \in 0..MaxExportRows :
       /\ hadStore \/ n = 0
       /\ providers = [k \in 1..n |-> ExportProvider(k)]
       /\ rowids \in RowidsOf(n)
       /\ specialties = IF n = 0 THEN <<>> ELSE StoreSpecialties
       /\ states = IF n = 0 THEN <<>> ELSE StoreStates
       /\ cities \in IF n = 0 THEN {<<>>} ELSE StoreCities
       /\ specialty_state = IF n = 0 THEN <<>> ELSE StoreSpecialtyState
       /\ stats = ComputeStats(providers, specialties, states, cities)
  /\ seedFiles = <<>>
  /\ fileNum = 0
  /\ lastRowid = 0
  /\ exported = 0
  /\ totalCount = 0
  /\ rangeQueries = 0
  /\ chunks = <<>>
  /\ run = 1
  /\ prevSeed = <<>>
  /\ OthersIdle

NextExport ==
  \/ ExportNoDatabase
  \/ ExportOpen
  \/ ExportSpecialties
  \/ ExportStates
  \/ ExportCities
  \/ ExportSpecialtyState
  \/ ExportLargeStart
  \/ ExportChunk
  \/ ExportLargeEnd
  \/ WriteIndices
  \/ RunAgain

SpecExport == InitExport /\ [][NextExport]_vars

----------------------------------------------------------------------------
(* Slug resolution on its own: the slug step of the ingestion loop (lines   *)
(* 268-276) applied to a line whose candidate meets a seen-set of any shape. *)

\* The largest suffix n of a candidate-n that the seen-set may hold.
MaxSuffix == 10

\* The lines whose slug is resolved.
SlugLines ==
  { Layout(Base, HeaderFull, 0),
    Layout(With(Base, C_FIRST :> <<"C","Y">>), HeaderFull, 0) }

\* The candidate of the line read last.
LineCandidate ==
  baseSlugOf(get(headerIndices, lastLine, C_FIRST),
             get(headerIndices, lastLine, C_LAST),
             get(headerIndices, lastLine, C_NPI))

Suffixed(cand, n) == cand \o <<"-">> \o ToStr(n)

InitSlug ==
  /\ profile = "slug"
  /\ rawFiles = {TAXONOMY_FILE, NPPES_FILE}
  /\ hadStore = FALSE
  /\ dbFile = "new"
  /\ taxonomy = TaxPlain
  /\ phase = "SlugPending"
  /\ exitCode = 0
  /\ header = HeaderFull
  /\ headerIndices = BuildHeaderIndices(HeaderFull)
  /\ lineNum = 2
  /\ inserted = 0
  /\ skipped = 0
  /\ batchProviders = <<>>
  /\ lastLine \in SlugLines
  /\ slugSeen \in SUBSET ({LineCandidate} \cup
                          {Suffixed(LineCandidate, n) : n \in 1..MaxSuffix})
  /\ providers = <<>>
  /\ dbError = FALSE
  /\ specialties = <<>>
  /\ states = <<>>
  /\ cities = <<>>
  /\ specialty_state = <<>>
  /\ indices = {}
  /\ stats = <<>>
  /\ lastPushed = FALSE
  /\ lastSlug = <<>>
  /\ submitted = <<>>
  /\ transactions = <<>>
  /\ rowids = <<>>
  /\ seedFiles = <<>>
  /\ fileNum = 0
  /\ lastRowid = 0
  /\ exported = 0
  /\ totalCount = 0
  /\ rangeQueries = 0
  /\ chunks = <<>>
  /\ run = 0
  /\ prevSeed = <<>>
  /\ OthersIdle

\* let slug = baseSlug ... slugSeen.set(slug, true)            (lines 268-276)
ResolveSlug ==
  /\ phase = "SlugPending"
  /\ lastSlug' = UniqueSlug(slugSeen, LineCandidate)
  /\ slugSeen' = slugSeen \cup {UniqueSlug(slugSeen, LineCandidate)}
  /\ phase' = "SlugResolved"
  /\ UNCHANGED <<profile, rawFiles, dbFile, hadStore, taxonomy, exitCode, header,
                 headerIndices, lineNum, inserted, skipped, batchProviders,
                 providers, dbError, aggVars, lastLine, lastPushed, submitted,
                 transactions, exportVars>>

NextSlug == ResolveSlug

SpecSlug == InitSlug /\ [][NextSlug]_vars

----------------------------------------------------------------------------
(* parseCSVLine on its own (lines 56-78): lines over a small alphabet, each *)
(* handed to one call, a second call following the first.                   *)

\* The longest line parsed.
MaxCsvLen == 5

\* A letter, the delimiter and the quote character.
CsvAlphabet == {"a", ",", "\""}

CsvLines == UNION { [1..n -> CsvAlphabet] : n \in 0..MaxCsvLen }

\* The loop of parseCSVLine from index i on (i counted from 1), with the
\* values its locals current, inQuotes and fields hold there. (lines 60-77)
RECURSIVE ParseFrom(_, _, _, _, _)
ParseFrom(line, i, current, inQuotes, fields) ==
  IF i > Len(line) THEN Append(fields, current)
  ELSE IF line[i] = "\""
    THEN IF inQuotes /\ i + 1 <= Len(line) /\ line[i + 1] = "\""
           THEN ParseFrom(line, i + 2, Append(current, "\""), inQuotes, fields)
           ELSE ParseFrom(line, i + 1, current, ~ inQuotes, fields)
  ELSE IF line[i] = "," /\ ~ inQuotes
    THEN ParseFrom(line, i + 1, <<>>, inQuotes, Append(fields, current))
  ELSE ParseFrom(line, i + 1, Append(current, line[i]), inQuotes, fields)

\* Faulty variant of parseCSVLine: a doubled quote is read as two quotes,
\* each of them toggling.
RECURSIVE ParseFromNoEscape(_, _, _, _, _)
ParseFromNoEscape(line, i, current, inQuotes, fields) ==
  IF i > Len(line) THEN Append(fields, current)
  ELSE IF line[i] = "\""
    THEN ParseFromNoEscape(line, i + 1, current, ~ inQuotes, fields)
  ELSE IF line[i] = "," /\ ~ inQuotes
    THEN ParseFromNoEscape(line, i + 1, <<>>, inQuotes, Append(fields, current))
  ELSE ParseFromNoEscape(line, i + 1, Append(current, line[i]), inQuotes, fields)

parseCSVLineNoEscape(line) == ParseFromNoEscape(line, 1, <<>>, FALSE, <<>>)

\* parseCSVLine: fields = [], current = '', inQuotes = false, then the loop.
\*                                                            (lines 56-78)
parseCSVLine(line) == ParseFrom(line, 1, <<>>, FALSE, <<>>)

\* The value of inQuotes when the loop of parseCSVLine ends.  (lines 59-75)
RECURSIVE QuotedAfter(_, _, _)
QuotedAfter(line, i, inQuotes) ==
  IF i > Len(line) THEN inQuotes
  ELSE IF line[i] = "\""
    THEN IF inQuotes /\ i + 1 <= Len(line) /\ line[i + 1] = "\""
           THEN QuotedAfter(line, i + 2, inQuotes)
           ELSE QuotedAfter(line, i + 1, ~ inQuotes)
  ELSE QuotedAfter(line, i + 1, inQuotes)

EndsQuoted(line) == QuotedAfter(line, 1, FALSE)

\* The server has not started.
ServerIdle ==
  /\ now = 0
  /\ rateLimitMap = <<>>
  /\ responseCache = <<>>
  /\ pending = <<>>
  /\ served = 0
  /\ lastEvent = [kind |-> "none"]
  /\ passed = <<>>

\* Every variable of the build and of the seed exporter at rest.
PipelineIdle ==
  /\ rawFiles = {TAXONOMY_FILE, NPPES_FILE}
  /\ hadStore = FALSE
  /\ dbFile = "absent"
  /\ taxonomy = <<>>
  /\ exitCode = 0
  /\ header = <<>>
  /\ headerIndices = <<>>
  /\ lineNum = 0
  /\ inserted = 0
  /\ skipped = 0
  /\ batchProviders = <<>>
  /\ slugSeen = {}
  /\ providers = <<>>
  /\ dbError = FALSE
  /\ specialties = <<>>
  /\ states = <<>>
  /\ cities = <<>>
  /\ specialty_state = <<>>
  /\ indices = {}
  /\ stats = <<>>
  /\ lastLine = <<>>
  /\ lastPushed = FALSE
  /\ lastSlug = <<>>
  /\ submitted = <<>>
  /\ transactions = <<>>
  /\ rowids = <<>>
  /\ seedFiles = <<>>
  /\ fileNum = 0
  /\ lastRowid = 0
  /\ exported = 0
  /\ totalCount = 0
  /\ rangeQueries = 0
  /\ chunks = <<>>
  /\ run = 0
  /\ prevSeed = <<>>

\* What a step outside the build and the seed exporter leaves alone.
pipelineData ==
  <<profile, rawFiles, dbFile, hadStore, taxonomy, exitCode, header,
    headerIndices, lineNum, inserted, skipped, batchProviders, slugSeen,
    providers, dbError, aggVars, lastLine, lastPushed, lastSlug, submitted,
    transactions, rowids, seedFiles, fileNum, lastRowid, exported, totalCount,
    rangeQueries, chunks, run, prevSeed>>

InitCsv ==
  /\ profile = "csv"
  /\ phase = "CsvIdle"
  /\ PipelineIdle
  /\ csvLine = <<>>
  /\ csvFields = <<>>
  /\ csvCarry = FALSE
  /\ taxData = <<>>
  /\ ServerIdle

\* One call of parseCSVLine, on any line; what the call before it was left
\* in is remembered.
ParseLine ==
  /\ phase \in {"CsvIdle", "CsvParsed"}
  /\ \E line \in CsvLines :
       /\ csvLine' = line
       /\ csvFields' = parseCSVLine(line)
  /\ csvCarry' = (phase = "CsvParsed" /\ EndsQuoted(csvLine))
  /\ phase' = IF phase = "CsvIdle" THEN "CsvParsed" ELSE "CsvParsedAgain"
  /\ UNCHANGED <<pipelineData, taxData, serverVars>>

NextCsv == ParseLine

SpecCsv == InitCsv /\ [][NextCsv]_vars

----------------------------------------------------------------------------
(* loadTaxonomy on its own (lines 21-53): taxonomy files of a header line   *)
(* and a few rows.                                                          *)

\* The most rows after the header line of a taxonomy file.
MaxTaxRows == 2

\* data.split('\n')                                                (line 28)
RECURSIVE SplitLines(_)
SplitLines(data) ==
  IF \A i \in DOMAIN data : data[i] # "\n" THEN <<data>>
  ELSE LET at == CHOOSE i \in DOMAIN data :
                   /\ data[i] = "\n"
                   /\ \A j \in 1..(i - 1) : data[j] # "\n"
       IN  <<SubSeq(data, 1, at - 1)>> \o SplitLines(SubSeq(data, at + 1, Len(data)))

\* fields[k]?.trim() || '', k counted from 0.                  (lines 35-39)
TrimmedField(fields, k) ==
  IF k + 1 \in DOMAIN fields THEN trim(fields[k + 1]) ELSE <<>>

Individual == <<"I","n","d","i","v","i","d","u","a","l">>

\* Faulty variant of TaxName: the display name is not looked at.
TaxNameWithoutDisplay(classification, specialization, displayName) ==
  IF specialization # <<>>
    THEN classification \o <<" ", "-", " ">> \o specialization
    ELSE classification

\* displayName || (specialization ? `${classification} - ${specialization}`
\*                                : classification)             (lines 42-46)
TaxName(classification, specialization, displayName) ==
  IF displayName # <<>> THEN displayName
  ELSE IF specialization # <<>>
    THEN classification \o <<" ", "-", " ">> \o specialization
    ELSE classification

\* for (let i = 1; i < lines.length; i++), i counted from 1 here, with the
\* map as it stands.                                           (lines 31-50)
RECURSIVE TaxLoop(_, _, _)
TaxLoop(lines, i, map) ==
  IF i > Len(lines) THEN map
  ELSE LET line == trim(lines[i])
           fields == parseCSVLine(line)
           code == TrimmedField(fields, 0)
           classification == TrimmedField(fields, 2)
           specialization == TrimmedField(fields, 3)
           displayName == TrimmedField(fields, 6)
           section == TrimmedField(fields, 7)
       IN  IF line = <<>> THEN TaxLoop(lines, i + 1, map)
           ELSE IF code # <<>> /\ section = Individual
             THEN TaxLoop(lines, i + 1,
                    (code :> [name |-> TaxName(classification, specialization,
                                               displayName),
                              category |-> classification]) @@ map)
           ELSE TaxLoop(lines, i + 1, map)

\* loadTaxonomy with the file in place: line 0 is passed over. (lines 27-52)
loadTaxonomy(data) == TaxLoop(SplitLines(data), 2, <<>>)

\* A row of the taxonomy file: Code, Grouping, Classification,
\* Specialization, Definition, Notes, Display Name, Section.
TaxRow(code, classification, specialization, displayName, section) ==
  code \o <<",", "G", ",">> \o classification \o <<",">> \o specialization
       \o <<",", ",", ",">> \o displayName \o <<",">> \o section

TaxHeaderRow ==
  TaxRow(<<"C","o","d","e">>, <<"C","l","a","s","s">>, <<"S","p","e","c">>,
         <<"D","i","s","p","l","a","y">>, <<"S","e","c","t","i","o","n">>)

\* The rows a file is made of: two of one code, one with a display name, one
\* of another section, a blank one, one without code, one with spaces, a
\* quoted comma and a carriage return, one that ends early, and one with a
\* specialization and no classification.
TaxRowTexts ==
  << TaxRow(T1, <<"F","a","m">>, <<>>, <<>>, Individual),
     TaxRow(T1, <<"F","a","m">>, <<"P","e","d">>, <<>>, Individual),
     TaxRow(T3, <<"N","u","r","s","e">>, <<"I","C","U">>, <<"D","o","c">>, Individual),
     TaxRow(T4, <<"L","a","b">>, <<>>, <<>>, <<"G","r","o","u","p">>),
     <<" ", "\t">>,
     TaxRow(<<>>, <<"F","a","m">>, <<>>, <<>>, Individual),
     TaxRow(<<" ">> \o T3 \o <<" ">>, <<"\"","A",","," ","B","\"">>, <<>>, <<" ">>,
            <<" ">> \o Individual \o <<"\r">>),
     T4 \o <<",", "G", ",", "L", "a", "b">>,
     TaxRow(T5, <<>>, <<"P","e","d">>, <<>>, Individual) >>

\* Lines joined by '\n'.
RECURSIVE JoinLines(_)
JoinLines(lines) ==
  IF lines = <<>> THEN <<>>
  ELSE IF Len(lines) = 1 THEN lines[1]
  ELSE lines[1] \o <<"\n">> \o JoinLines(Tail(lines))

\* The files: a first line that is the header or reads like a row, then up
\* to MaxTaxRows rows, with or without a newline at the end.
TaxFiles ==
  { JoinLines(<<first>> \o [i \in DOMAIN pick |-> TaxRowTexts[pick[i]]]) \o tail :
      first \in {TaxHeaderRow, TaxRowTexts[3]},
      pick \in UNION { [1..n -> DOMAIN TaxRowTexts] : n \in 0..MaxTaxRows },
      tail \in {<<>>, <<"\n">>} }

InitTax ==
  /\ profile = "taxonomy"
  /\ phase = "TaxPending"
  /\ PipelineIdle
  /\ csvLine = <<>>
  /\ csvFields = <<>>
  /\ csvCarry = FALSE
  /\ taxData \in TaxFiles
  /\ ServerIdle

\* const taxonomy = loadTaxonomy()                                (line 120)
ReadTaxonomy ==
  /\ phase = "TaxPending"
  /\ taxonomy' = loadTaxonomy(taxData)
  /\ phase' = "TaxRead"
  /\ UNCHANGED <<profile, rawFiles, dbFile, hadStore, exitCode, header,
                 headerIndices, lineNum, inserted, skipped, batchProviders,
                 slugSeen, providers, dbError, aggVars, lastLine, lastPushed,
                 lastSlug, submitted, transactions, exportVars>>

NextTax == ReadTaxonomy

SpecTax == InitTax /\ [][NextTax]_vars

----------------------------------------------------------------------------
(* The request middleware (src/middleware.ts, kept here as                  *)
(* src/unnamed/part_005): the per-IP rate limiter and the in-memory         *)
(* response cache.  Node runs one handler at a time and hands over only at  *)
(* an await, so a request is two steps: onRequest up to its return or to    *)
(* await next(), and the rest of it once next() has resolved.  Time is in   *)
(* ticks.                                                                   *)

\* const PAGE_RATE_LIMIT = 60 (line 20), scaled down.
PAGE_RATE_LIMIT == 3
\* const API_RATE_LIMIT = 30 (line 21), scaled down.
API_RATE_LIMIT == 2
\* const RATE_WINDOW = 60_000 (line 22), in ticks.
RATE_WINDOW == 0
\* if (rateLimitMap.size > 1000) (line 37), scaled down.
CLEANUP_SIZE == 1
\* const CACHE_TTL = 300_000 (line 46), in ticks.
CACHE_TTL == 0
\* const MAX_CACHE_ENTRIES = 500 (line 47), scaled down.
MAX_CACHE_ENTRIES == 2
\* The requests of a run, and the ticks of its clock.
MaxRequests == 4
MaxTime == 1
\* The requests that wait for next() at one time.
MaxPending == 2

\* String.prototype.startsWith
startsWith(str, prefix) ==
  Len(prefix) <= Len(str) /\ SubSeq(str, 1, Len(prefix)) = prefix

PathA == <<"/","a">>
PathApi == <<"/","a","p","i","/","x">>
PathAsset == <<"/","_","a","s","t","r","o","/","s">>
PathFavicon == <<"/","f","a","v","i","c","o","n",".","i","c","o">>
SearchP2 == <<"?","p","=","2">>

\* The requests that arrive: pages, a page with a query string, the API by
\* GET and by POST, a crawler, static files, and a second address.
Requests ==
  { [ip |-> "ip1", method |-> "GET",  path |-> PathA,       search |-> <<>>,     bot |-> FALSE],
    [ip |-> "ip1", method |-> "GET",  path |-> PathA,       search |-> SearchP2, bot |-> FALSE],
    [ip |-> "ip1", method |-> "GET",  path |-> PathApi,     search |-> <<>>,     bot |-> FALSE],
    [ip |-> "ip1", method |-> "POST", path |-> PathApi,     search |-> <<>>,     bot |-> FALSE],
    [ip |-> "ip1", method |-> "GET",  path |-> PathA,       search |-> <<>>,     bot |-> TRUE],
    [ip |-> "ip1", method |-> "GET",  path |-> PathAsset,   search |-> <<>>,     bot |-> FALSE],
    [ip |-> "ip1", method |-> "GET",  path |-> PathFavicon, search |-> <<>>,     bot |-> FALSE],
    [ip |-> "ip2", method |-> "GET",  path |-> PathApi,     search |-> <<>>,     bot |-> FALSE] }

IPs == {r.ip : r \in Requests}

\* const cacheKey = path + context.url.search                      (line 97)
CacheKey(req) == req.path \o req.search

CacheKeys == {CacheKey(r) : r \in Requests}

\* path.startsWith('/_astro/') || path.startsWith('/favicon')      (line 83)
IsStatic(path) ==
  \/ startsWith(path, <<"/","_","a","s","t","r","o","/">>)
  \/ startsWith(path, <<"/","f","a","v","i","c","o","n">>)

\* path.startsWith('/api/') ? API_RATE_LIMIT : PAGE_RATE_LIMIT     (line 90)
LimitOf(path) ==
  IF startsWith(path, <<"/","a","p","i","/">>) THEN API_RATE_LIMIT ELSE PAGE_RATE_LIMIT

\* Faulty variant of isRateLimited: the request that reaches the limit is
\* already refused.
isRateLimitedAtLimit(map, ip, limit, t) ==
  IF ip \notin DOMAIN map \/ t > map[ip].resetAt
    THEN [map |-> (ip :> [count |-> 1, resetAt |-> t + RATE_WINDOW]) @@ map,
          limited |-> FALSE]
    ELSE [map |-> [map EXCEPT ![ip].count = @ + 1],
          limited |-> map[ip].count + 1 >= limit]

\* isRateLimited(ip, limit) at time t: the map it leaves and what it returns.
\*                                                            (lines 24-33)
isRateLimited(map, ip, limit, t) ==
  IF ip \notin DOMAIN map \/ t > map[ip].resetAt
    THEN [map |-> (ip :> [count |-> 1, resetAt |-> t + RATE_WINDOW]) @@ map,
          limited |-> FALSE]
    ELSE [map |-> [map EXCEPT ![ip].count = @ + 1],
          limited |-> map[ip].count + 1 > limit]

\* cleanupRateLimits() at time t.                              (lines 35-42)
cleanupRateLimits(map, t) ==
  IF Cardinality(DOMAIN map) > CLEANUP_SIZE
    THEN [ip \in {i \in DOMAIN map : ~ (t > map[i].resetAt)} |-> map[ip]]
    ELSE map

\* getCachedResponse(key) at time t: the cache it leaves and whether it
\* returned a response.                                        (lines 49-56)
getCachedResponse(cache, key, t) ==
  IF \E i \in DOMAIN cache : cache[i].key = key /\ ~ (t > cache[i].expiry)
    THEN [cache |-> cache, hit |-> TRUE]
    ELSE [cache |-> SelectSeq(cache, LAMBDA e : e.key # key), hit |-> FALSE]

\* responseCache.set(key, ...): an entry of that key is overwritten where it
\* stands, a new key goes to the end.                              (line 63)
CacheSet(cache, key, t) ==
  IF \E i \in DOMAIN cache : cache[i].key = key
    THEN [i \in DOMAIN cache |->
            IF cache[i].key = key THEN [key |-> key, expiry |-> t + CACHE_TTL]
            ELSE cache[i]]
    ELSE Append(cache, [key |-> key, expiry |-> t + CACHE_TTL])

\* Faulty variant of cacheResponse: nothing is evicted.
cacheResponseNoEviction(cache, key, t) == CacheSet(cache, key, t)

\* cacheResponse(key, body, headers) at time t: with the cache full the
\* first key of the map is deleted, then the entry is set.     (lines 58-64)
cacheResponse(cache, key, t) ==
  IF Len(cache) >= MAX_CACHE_ENTRIES /\ cache # <<>>
    THEN CacheSet(Tail(cache), key, t)
    ELSE CacheSet(cache, key, t)

serverFixed == <<pipelineData, phase, csvLine, csvFields, csvCarry, taxData>>

InitServer ==
  /\ profile = "server"
  /\ phase = "Serving"
  /\ PipelineIdle
  /\ csvLine = <<>>
  /\ csvFields = <<>>
  /\ csvCarry = FALSE
  /\ taxData = <<>>
  /\ now = 0
  /\ rateLimitMap = <<>>
  /\ responseCache = <<>>
  /\ pending = [k \in CacheKeys |-> 0]
  /\ served = 0
  /\ lastEvent = [kind |-> "none"]
  /\ passed = [ip \in IPs |-> [api |-> 0, all |-> 0]]

\* The clock moves on.
Tick ==
  /\ phase = "Serving"
  /\ now < MaxTime
  /\ now' = now + 1
  /\ lastEvent' = [kind |-> "none"]
  /\ UNCHANGED <<serverFixed, rateLimitMap, responseCache, pending, served, passed>>

RECURSIVE PendingTotal(_)
\* The requests that wait for next().
PendingTotal(keys) ==
  IF keys = {} THEN 0
  ELSE LET k == CHOOSE x \in keys : TRUE
       IN  pending[k] + PendingTotal(keys \ {k})

\* What a request that is not refused adds to the history of its window.
PassedAfter(old, req, fresh) ==
  LET base == IF fresh THEN [api |-> 0, all |-> 0] ELSE old
      isApi == LimitOf(req.path) = API_RATE_LIMIT
  IN  [api |-> base.api + (IF isApi THEN 1 ELSE 0), all |-> base.all + 1]

\* onRequest for a static file: return next().                    (line 83)
RequestStatic ==
  /\ phase = "Serving"
  /\ served < MaxRequests
  /\ served' = served + 1
  /\ \E req \in Requests :
       /\ IsStatic(req.path)
       /\ lastEvent' = [kind |-> "request", req |-> req, status |-> "next"]
  /\ UNCHANGED <<serverFixed, now, rateLimitMap, responseCache, pending, passed>>

\* onRequest for a request that is refused: 429.               (lines 85-93)
RequestRefused ==
  /\ phase = "Serving"
  /\ served < MaxRequests
  /\ served' = served + 1
  /\ \E req \in Requests :
       LET rl == isRateLimited(cleanupRateLimits(rateLimitMap, now), req.ip,
                               LimitOf(req.path), now)
       IN  /\ ~ IsStatic(req.path)
           /\ ~ req.bot
           /\ rl.limited
           /\ rateLimitMap' = rl.map
           /\ lastEvent' = [kind |-> "request", req |-> req, status |-> "429"]
  /\ UNCHANGED <<serverFixed, now, responseCache, pending, passed>>

\* onRequest for a request that is let through: a GET is answered from the
\* cache or goes to await next(), any other method returns next().
\*                                                           (lines 85-115)
RequestPassed ==
  /\ phase = "Serving"
  /\ served < MaxRequests
  /\ served' = served + 1
  /\ \E req \in Requests :
       LET clean == cleanupRateLimits(rateLimitMap, now)
           rl    == IF req.bot THEN [map |-> clean, limited |-> FALSE]
                    ELSE isRateLimited(clean, req.ip, LimitOf(req.path), now)
           fresh == req.ip \notin DOMAIN clean \/ now > clean[req.ip].resetAt
           got   == getCachedResponse(responseCache, CacheKey(req), now)
       IN  /\ ~ IsStatic(req.path)
           /\ ~ rl.limited
           /\ rateLimitMap' = rl.map
           /\ passed' = IF req.bot THEN passed
                        ELSE [passed EXCEPT ![req.ip] = PassedAfter(@, req, fresh)]
           /\ (req.method = "GET" /\ ~ got.hit) => PendingTotal(CacheKeys) < MaxPending
           /\ IF req.method = "GET"
                THEN /\ responseCache' = got.cache
                     /\ pending' = IF got.hit THEN pending
                                   ELSE [pending EXCEPT ![CacheKey(req)] = @ + 1]
                     /\ lastEvent' = [kind |-> "request", req |-> req,
                                      status |-> IF got.hit THEN "hit" ELSE "miss"]
                ELSE /\ UNCHANGED <<responseCache, pending>>
                     /\ lastEvent' = [kind |-> "request", req |-> req,
                                      status |-> "next"]
  /\ UNCHANGED <<serverFixed, now>>

\* next() has resolved for a GET that missed: a 200 of type text/html or xml
\* is stored and returned, any other response is returned as it is.
\*                                                          (lines 101-112)
Respond ==
  /\ phase = "Serving"
  /\ \E key \in CacheKeys, cacheable \in BOOLEAN :
       /\ pending[key] > 0
       /\ pending' = [pending EXCEPT ![key] = @ - 1]
       /\ IF cacheable
            THEN /\ responseCache' = cacheResponse(responseCache, key, now)
                 /\ lastEvent' = [kind |-> "store", key |-> key,
                                  full |-> Len(responseCache) >= MAX_CACHE_ENTRIES]
            ELSE /\ UNCHANGED responseCache
                 /\ lastEvent' = [kind |-> "respond", key |-> key]
  /\ UNCHANGED <<serverFixed, now, rateLimitMap, served, passed>>

NextServer ==
  \/ Tick
  \/ RequestStatic
  \/ RequestRefused
  \/ RequestPassed
  \/ Respond

SpecServer == InitServer /\ [][NextServer]_vars

----------------------------------------------------------------------------
(* Properties.                                                             *)

Built(ph) ==
  CASE ph = "specialties" ->
         phase \in {"SpecialtiesBuilt", "StatesBuilt", "CitiesBuilt",
                    "Aggregated", "Indexed", "Finished"}
    [] ph = "cities" -> phase \in {"CitiesBuilt", "Aggregated", "Indexed", "Finished"}
    [] ph = "all" -> phase \in {"Aggregated", "Indexed", "Finished"}

\* The candidate slug of a provider row, recomputed from its own columns.
Candidate(p) == baseSlugOf(p.first_name, p.last_name, p.npi)

\* C1: at every point of a run the slug values of the rows of the providers
\* table are pairwise distinct.
C1_ProviderSlugsDistinct ==
  \A i, j \in DOMAIN providers :
    i # j => providers[i].slug # providers[j].slug

\* C1 witness: ingestion is over and two rows of the table had the same
\* candidate slug.
C1_Witness ==
  /\ phase = "Done"
  /\ \E i, j \in DOMAIN providers :
       i # j /\ Candidate(providers[i]) = Candidate(providers[j])

\* The records that have been handed to insertBatch and committed.
Flushed == SubSeq(submitted, 1, inserted)

\* Of a sequence of records, those whose npi no earlier one holds.
FirstOfEachNpi(recs) ==
  LET keep == SelectSeq([i \in DOMAIN recs |-> i],
                        LAMBDA i : \A j \in 1..(i - 1) : recs[j].npi # recs[i].npi)
  IN  [k \in DOMAIN keep |-> recs[keep[k]]]

\* C2: a record whose npi is already in the table changes nothing: the table
\* is, in order, the first record of each npi among those committed; no
\* statement has thrown; and the npi values of the table are pairwise distinct.
C2_DuplicateNpiIgnored ==
  /\ providers = FirstOfEachNpi(Flushed)
  /\ dbError = FALSE
  /\ \A i, j \in DOMAIN providers : i # j => providers[i].npi # providers[j].npi

\* C2 witness: committed records repeated an npi inside one batch and across
\* two batches, with columns that differ from the first occurrence's.
C2_Witness ==
  /\ \E i, j \in DOMAIN Flushed :
       /\ i < j
       /\ Flushed[i].npi = Flushed[j].npi
       /\ (i - 1) \div BATCH_SIZE = (j - 1) \div BATCH_SIZE
  /\ \E i, j \in DOMAIN Flushed :
       /\ i < j
       /\ Flushed[i].npi = Flushed[j].npi
       /\ Flushed[i] # Flushed[j]
       /\ (i - 1) \div BATCH_SIZE # (j - 1) \div BATCH_SIZE

\* The six conditions on a data line, taken together and in no order.
AllSix(tax, idx, f) ==
  /\ get(idx, f, C_LAST) # <<>>
  /\ get(idx, f, C_FIRST) # <<>>
  /\ get(idx, f, C_NPI) # <<>>
  /\ get(idx, f, C_TAX) \in DOMAIN tax
  /\ get(idx, f, C_CITY) # <<>>
  /\ get(idx, f, C_STATE) \in VALID_STATES
  /\ (get(idx, f, C_DEACT) = <<>> \/ get(idx, f, C_REACT) # <<>>)
  /\ get(idx, f, C_ENTITY) = <<"1">>

\* C3: the data line read last was batched exactly if it satisfies all six
\* conditions, and every row of the table is a record that was batched; so a
\* line whose entity type is not '1' never reaches the table.
C3_FilterCorrect ==
  /\ lastPushed <=> (lineNum > 1 /\ AllSix(taxonomy, headerIndices, lastLine))
  /\ lastPushed => submitted # <<>> /\ submitted[Len(submitted)].npi
                                        = get(headerIndices, lastLine, C_NPI)
  /\ \A i \in DOMAIN providers : providers[i] \in Range(submitted)
  /\ Len(submitted) + skipped = (IF lineNum = 0 THEN 0 ELSE lineNum - 1)

\* C3 witness: under a reordered header, a reactivated provider's line was
\* batched after another line was skipped.
C3_Witness ==
  /\ lastPushed
  /\ skipped > 0
  /\ get(headerIndices, lastLine, C_DEACT) # <<>>
  /\ header = Reverse(HeaderFull)

\* The number of rows of the providers table that satisfy a condition,
\* counted as a set of row positions.
CountWhere(Cond(_)) == Cardinality({i \in DOMAIN providers : Cond(providers[i])})

\* C4: once the four aggregate tables are built, every specialties, states
\* and specialty_state row's provider_count is the number of provider rows
\* of its code, state or pair, and every code, state and pair that occurs
\* among the providers has exactly one row.
C4_AggregateCounts ==
  Built("all") =>
    /\ \A i \in DOMAIN specialties :
         specialties[i].provider_count
           = CountWhere(LAMBDA p : p.specialty_code = specialties[i].code)
    /\ \A i \in DOMAIN states :
         states[i].provider_count = CountWhere(LAMBDA p : p.state = states[i].abbr)
    /\ \A i \in DOMAIN specialty_state :
         specialty_state[i].provider_count
           = CountWhere(LAMBDA p : /\ p.specialty_code = specialty_state[i].specialty_code
                                   /\ p.state = specialty_state[i].state)
    /\ \A r \in DOMAIN providers :
         /\ Cardinality({i \in DOMAIN specialties :
                           specialties[i].code = providers[r].specialty_code}) = 1
         /\ Cardinality({i \in DOMAIN states :
                           states[i].abbr = providers[r].state}) = 1
         /\ Cardinality({i \in DOMAIN specialty_state :
                           /\ specialty_state[i].specialty_code = providers[r].specialty_code
                           /\ specialty_state[i].state = providers[r].state}) = 1

\* C4 witness: a finished build with two specialties and two states, one
\* specialty counting two providers.
C4_Witness ==
  /\ phase = "Finished"
  /\ Len(specialties) = 2
  /\ Len(states) = 2
  /\ \E i \in DOMAIN specialties : specialties[i].provider_count = 2

\* C5: once the cities table is built, a (city, state) pair has a row exactly
\* if at least CITY_MIN (10) provider rows have that city and state; there is
\* one row a pair, and its provider_count is that number.
C5_CityThreshold ==
  Built("cities") =>
    /\ \A r \in DOMAIN providers :
         LET n == CountWhere(LAMBDA p : /\ p.city = providers[r].city
                                        /\ p.state = providers[r].state)
             rows == {i \in DOMAIN cities : /\ cities[i].city = providers[r].city
                                            /\ cities[i].state = providers[r].state}
         IN  /\ n >= 10 => Cardinality(rows) = 1
             /\ n < 10 => rows = {}
             /\ \A i \in rows : cities[i].provider_count = n
    /\ \A i \in DOMAIN cities :
         \E r \in DOMAIN providers : /\ providers[r].city = cities[i].city
                                     /\ providers[r].state = cities[i].state

\* C5 witness: a city of exactly 10 providers has a row counting 10 and a
\* city of 9 providers has none.
C5_Witness ==
  /\ Built("cities")
  /\ \E i \in DOMAIN cities :
       /\ cities[i].provider_count = 10
       /\ CountWhere(LAMBDA p : p.city = cities[i].city /\ p.state = cities[i].state) = 10
  /\ \E r \in DOMAIN providers :
       /\ CountWhere(LAMBDA p : p.city = providers[r].city /\ p.state = providers[r].state) = 9
       /\ \A i \in DOMAIN cities : cities[i].city # providers[r].city

\* The slug a specialties row is given before duplicates are handled.
InitialSlug(row) == slugify(row.name)

\* The rows of the specialties table that were given the same initial slug.
SlugGroup(i) ==
  {j \in DOMAIN specialties : InitialSlug(specialties[j]) = InitialSlug(specialties[i])}

C7_SpecialtySlugsDistinct ==
  Built("specialties") =>
    \A i, j \in DOMAIN specialties :
      i # j => specialties[i].slug # specialties[j].slug

\* C8: once the cities table is built, its slug values are pairwise distinct:
\* in id order, a row holds its candidate when no earlier row holds it, else
\* the candidate followed by -n for the least n >= 1 that no earlier row holds.
CityCandidate(row) == slugify(row.city \o <<"-">> \o row.state)

LeastFree(cand, taken) ==
  cand \o <<"-">> \o
    ToStr(CHOOSE n \in 1..(Cardinality(taken) + 1) :
            /\ cand \o <<"-">> \o ToStr(n) \notin taken
            /\ \A m \in 1..(n - 1) : cand \o <<"-">> \o ToStr(m) \in taken)

C8_CitySlugsDistinct ==
  Built("cities") =>
    /\ \A i, j \in DOMAIN cities : i # j => cities[i].slug # cities[j].slug
    /\ \A i \in DOMAIN cities :
         LET earlier == {cities[j].slug : j \in 1..(i - 1)}
             cand    == CityCandidate(cities[i])
         IN  /\ cities[i].id = i
             /\ cities[i].slug = IF cand \in earlier THEN LeastFree(cand, earlier)
                                 ELSE cand

\* C8 witness: two cities rows had the same candidate, and the later one
\* holds it with the suffix -1.
C8_Witness ==
  /\ Built("cities")
  /\ \E i, j \in DOMAIN cities :
       /\ i < j
       /\ CityCandidate(cities[i]) = CityCandidate(cities[j])
       /\ cities[i].slug = CityCandidate(cities[i])
       /\ cities[j].slug = CityCandidate(cities[j]) \o <<"-", "1">>

\* The slugs emitted before the k-th batched record.
EmittedBefore(k) == {submitted[j].slug : j \in 1..(k - 1)}

\* C9 as stated: of the batched records that share a candidate, the first
\* holds the candidate and each later one the candidate followed by -n for
\* the least n >= 1 not emitted before it; the npi is the line's own.
C9_AsStated ==
  /\ \A k \in DOMAIN submitted :
       LET cand == Candidate(submitted[k])
       IN  submitted[k].slug =
             IF \A j \in 1..(k - 1) : Candidate(submitted[j]) # cand
               THEN cand
               ELSE LeastFree(cand, EmittedBefore(k))
  /\ lastPushed =>
       submitted[Len(submitted)].npi = get(headerIndices, lastLine, C_NPI)

\* C9 amended: a batched record holds its candidate when that string was not
\* emitted before it, whoever it was emitted for, and otherwise the candidate
\* followed by -n for the least n >= 1 not emitted before it; so of the
\* records that share a candidate the first holds it unless it was emitted
\* already, and the second of two holds the suffix -1.  The npi is the line's.
C9_SlugResolution ==
  /\ \A k \in DOMAIN submitted :
       LET cand == Candidate(submitted[k])
       IN  submitted[k].slug =
             IF cand \notin EmittedBefore(k)
               THEN cand
               ELSE LeastFree(cand, EmittedBefore(k))
  /\ lastPushed =>
       /\ submitted[Len(submitted)].npi = get(headerIndices, lastLine, C_NPI)
       /\ submitted[Len(submitted)].slug = lastSlug

\* C9 witness: three records with distinct npi shared a candidate; the first
\* holds it, the second holds it with -1 and the third with -2.
C9_Witness ==
  /\ Len(submitted) = 3
  /\ Candidate(submitted[1]) = Candidate(submitted[2])
  /\ Candidate(submitted[1]) = Candidate(submitted[3])
  /\ submitted[1].npi # submitted[2].npi
  /\ submitted[2].npi # submitted[3].npi
  /\ submitted[1].slug = Candidate(submitted[1])
  /\ submitted[2].slug = Candidate(submitted[1]) \o <<"-", "1">>
  /\ submitted[3].slug = Candidate(submitted[1]) \o <<"-", "2">>

\* Whether a header row names the four columns main() cannot do without.
NamesAllFour(hdr) ==
  /\ "NPI" \in Range(hdr)
  /\ "Entity Type Code" \in Range(hdr)
  /\ "Provider First Name" \in Range(hdr)
  /\ "Provider Last Name (Legal Name)" \in Range(hdr)

\* C10: once the header line is read, the run has aborted with exit code 1
\* exactly if the header lacks one of the four columns, and then no data line
\* has been read, skipped, batched or inserted; with all four present, in any
\* order, the run is streaming or further on.
C10_HeaderCheck ==
  /\ lineNum >= 1 =>
       IF NamesAllFour(header)
         THEN phase # "Aborted" /\ phase # "AwaitHeader" /\ exitCode = 0
         ELSE phase = "Aborted" /\ exitCode = 1
  /\ phase = "Aborted" =>
       /\ lineNum <= 1
       /\ skipped = 0
       /\ inserted = 0
       /\ batchProviders = <<>>
       /\ submitted = <<>>
       /\ providers = <<>>
       /\ lastLine = <<>>

\* C10 witness: the header lacked the family-name column alone and the run
\* has aborted.
C10_Witness ==
  /\ phase = "Aborted"
  /\ header = Without(HeaderFull, C_LAST)

\* C11: when a run has aborted with a fatal error (taxonomy file missing,
\* extract missing, or a needed header column missing), a store that an
\* earlier run left at DB_PATH is still there with its earlier contents.
C11_PreviousStoreUntouched ==
  (phase = "Aborted" /\ hadStore) => dbFile = "previous"

\* C11, the two early exits: the run aborted for want of an input file and
\* the earlier store is still in place.
C11_Witness ==
  /\ phase = "Aborted"
  /\ hadStore
  /\ lineNum = 0
  /\ dbFile = "previous"

\* C12: once a header naming the four columns is read, the run never aborts
\* and exits with no error; each data line read while streaming leaves the
\* run streaming and is either skipped, adding exactly one to skipped and
\* nothing to the batch, or accepted, adding its record and leaving skipped
\* alone; so skipped plus accepted is the number of data lines, and the
\* stream ends in the first aggregation phase and nowhere else.
C12_NoDataLineAborts ==
  /\ [](lineNum >= 1 /\ NamesAllFour(header) =>
          /\ phase # "Aborted"
          /\ exitCode = 0
          /\ ~ dbError
          /\ skipped + Len(submitted) = lineNum - 1)
  /\ [][(phase = "Streaming" /\ lineNum' = lineNum + 1) =>
          /\ phase' = "Streaming"
          /\ \/ /\ skipped' = skipped + 1
                /\ submitted' = submitted
                /\ batchProviders' = batchProviders
                /\ ~ lastPushed'
             \/ /\ skipped' = skipped
                /\ Len(submitted') = Len(submitted) + 1
                /\ lastPushed']_vars
  /\ [][phase = "Streaming" => phase' \in {"Streaming", "Done"}]_vars

\* C12 witness: the stream has ended after a line with too few fields was
\* skipped, another line was skipped and one was accepted.
C12_Witness ==
  /\ phase = "Done"
  /\ Len(lastLine) < Len(header)
  /\ ~ lastPushed
  /\ skipped = 2
  /\ Len(submitted) = 1

\* The rowids of the chunks written so far, one after the other.
RECURSIVE Flatten(_)
Flatten(ss) == IF ss = <<>> THEN <<>> ELSE Head(ss) \o Flatten(Tail(ss))

\* The rows of providers that hold the rowids ids, in that order.
RowsAt(ids) ==
  [i \in DOMAIN ids |-> providers[CHOOSE r \in DOMAIN rowids : rowids[r] = ids[i]]]

\* C13: while exportLargeTable runs and after it, the chunks written hold,
\* one after the other, the rows of providers from the first on in rowid
\* order, each row once; the k-th chunk is what the k-th providers file
\* holds; the cursor is the rowid of the last row of the last chunk; and
\* once the function has returned, every row is in a chunk.
C13_CursorExport ==
  /\ phase \in {"ExportChunks", "ExportIndices", "Exported"} =>
       LET flat == Flatten(chunks)
       IN  /\ Len(flat) <= Len(rowids)
           /\ flat = SubSeq(rowids, 1, Len(flat))
           /\ \A k \in DOMAIN chunks :
                /\ chunks[k] # <<>>
                /\ FileName(P_PROVIDERS, k, 5) \in DOMAIN seedFiles
                /\ seedFiles[FileName(P_PROVIDERS, k, 5)].values =
                     ValuesOf(ColumnsOf("providers"), RowsAt(chunks[k]))
           /\ (phase = "ExportChunks" /\ chunks # <<>>) =>
                lastRowid = chunks[Len(chunks)][Len(chunks[Len(chunks)])]
           /\ \A k \in DOMAIN chunks : k > 1 =>
                chunks[k - 1][Len(chunks[k - 1])] < chunks[k][1]
  /\ phase \in {"ExportIndices", "Exported"} => Flatten(chunks) = rowids

\* C13 witness: two chunks were written from a table whose rowids start
\* above 1 and have a gap inside the first chunk and one between chunks.
C13_Witness ==
  /\ phase = "Exported"
  /\ Len(chunks) = 2
  /\ rowids[1] > 1
  /\ rowids[2] > rowids[1] + 1
  /\ rowids[3] > rowids[2] + 1

Ceil(n, d) == (n + d - 1) \div d

\* The providers files in the seed directory.
ProviderFiles ==
  {f \in DOMAIN seedFiles :
     seedFiles[f].kind = "data" /\ seedFiles[f].table = "providers"}

\* C14: in the loop of exportLargeTable one range query has been issued for
\* each file written, the rows exported are those of the files written, and
\* the files never outnumber ceil(N / LARGE_CHUNK); when the function has
\* returned, exactly ceil(N / LARGE_CHUNK) range queries were issued and as
\* many providers files written, N the rows of providers.
C14_RangeQueries ==
  /\ phase = "ExportChunks" =>
       /\ rangeQueries = fileNum
       /\ exported = Min(fileNum * LARGE_CHUNK, totalCount)
       /\ totalCount = Len(providers)
       /\ fileNum <= Ceil(totalCount, LARGE_CHUNK)
  /\ phase \in {"ExportIndices", "Exported"} =>
       /\ rangeQueries = Ceil(Len(providers), LARGE_CHUNK)
       /\ Cardinality(ProviderFiles) = Ceil(Len(providers), LARGE_CHUNK)

\* C14 witness: a table of 2 * LARGE_CHUNK + 1 rows was exported with three
\* range queries.
C14_Witness ==
  /\ phase = "Exported"
  /\ Len(providers) = 2 * LARGE_CHUNK + 1
  /\ rangeQueries = 3

ExportTables == {"specialties", "states", "cities", "specialty_state", "providers"}

TableRows(tableName) ==
  CASE tableName = "specialties" -> specialties
    [] tableName = "states" -> states
    [] tableName = "cities" -> cities
    [] tableName = "specialty_state" -> specialty_state
    [] tableName = "providers" -> providers

\* The chunk files of a table.
FilesOf(tableName) ==
  {f \in DOMAIN seedFiles :
     seedFiles[f].kind = "data" /\ seedFiles[f].table = tableName}

\* C15: when the exporter has finished, the chunk files of each table that
\* has any, replayed in filename order into an empty store, give a table
\* with as many rows as the source table, each source row among them with
\* every column's value as it was.
C15_ReplayRoundTrip ==
  phase = "Exported" =>
    \A t \in ExportTables :
      FilesOf(t) # {} =>
        LET db == Replay(seedFiles, FilesOf(t))
        IN  /\ ~ db.error
            /\ t \in DOMAIN db.tables
            /\ Len(db.tables[t]) = Len(TableRows(t))
            /\ \A i \in DOMAIN TableRows(t) :
                 \E j \in DOMAIN db.tables[t] : db.tables[t][j] = TableRows(t)[i]

\* C15 witness: the first providers file holds a row without credential,
\* written as the bare NULL, and a row with a quote in its family name,
\* written between quotes with the quote doubled; and specialties, whose
\* provider_count is a number, went into two files.
C15_Witness ==
  /\ phase = "Exported"
  /\ FileName(P_PROVIDERS, 1, 5) \in DOMAIN seedFiles
  /\ LET file == seedFiles[FileName(P_PROVIDERS, 1, 5)]
     IN  /\ Len(file.values) >= 2
         /\ file.values[1][4] = NULL_LITERAL
         /\ file.values[2][3] = <<"'","O","'","'","N","e","i","l","'">>
  /\ Cardinality(FilesOf("specialties")) = 2

C17_ReplayAllSucceeds ==
  phase = "Exported" =>
    /\ \A f \in DOMAIN seedFiles \ {INDEX_FILE} : TextLess(f, INDEX_FILE)
    /\ ~ Replay(seedFiles, DOMAIN seedFiles).error

\* C17, the order of the files alone: the index file sorts last.
C17_Witness ==
  /\ phase = "Exported"
  /\ cities = <<>>
  /\ providers # <<>>
  /\ \A f \in DOMAIN seedFiles \ {INDEX_FILE} : TextLess(f, INDEX_FILE)

\* The seen-set the slug step met: what it holds now less the slug it added.
SeenBefore == slugSeen \ {lastSlug}

\* The candidate-n, n >= 1, absent from seen that comes first in code-unit
\* order.  The seen-set holds no suffix above MaxSuffix, so the first absent
\* one of candidate-1, candidate-10, candidate-100 is among n <= 10 * MaxSuffix.
LexFirstFree(cand, seen) ==
  LET free == {Suffixed(cand, n) : n \in 1..(10 * MaxSuffix)} \ seen
  IN  CHOOSE a \in free : \A b \in free \ {a} : TextLess(a, b)

\* C18 as stated: the slug step gives the candidate if the seen-set lacks
\* it, and else the candidate-n absent from the seen-set that is first in
\* lexicographic order.
C18_AsStated ==
  phase = "SlugResolved" =>
    lastSlug = IF LineCandidate \notin SeenBefore THEN LineCandidate
               ELSE LexFirstFree(LineCandidate, SeenBefore)

\* C18 amended: the slug step gives the candidate if the seen-set lacks it,
\* and else candidate-n for the least n >= 1 such that the seen-set lacks
\* candidate-n; the slug given is then in the seen-set.
C18_LeastSuffix ==
  phase = "SlugResolved" =>
    /\ lastSlug = IF LineCandidate \notin SeenBefore THEN LineCandidate
                  ELSE LeastFree(LineCandidate, SeenBefore)
    /\ lastSlug \in slugSeen

\* C18 witness: the seen-set held the candidate and candidate-1 through
\* candidate-9, and the slug given is candidate-10.
C18_Witness ==
  /\ phase = "SlugResolved"
  /\ LineCandidate \in SeenBefore
  /\ \A n \in 1..9 : Suffixed(LineCandidate, n) \in SeenBefore
  /\ lastSlug = Suffixed(LineCandidate, 10)

\* C19: when the stream has ended and the summary is printed, inserted is
\* the number of rows of the providers table.
C19_InsertedIsRowCount ==
  phase = "Done" => inserted = Len(providers)

\* C20: while lines are read the pending batch holds fewer than BATCH_SIZE
\* records; the batches handed to insertBatch, one after the other, are the
\* accepted records in stream order from the first on, each record in one
\* batch, every batch but the last of BATCH_SIZE records and none empty;
\* what is pending is what follows them; and when the stream has ended every
\* accepted record has been handed over.
C20_BatchedOnce ==
  LET flat == Flatten(transactions)
  IN  /\ phase = "Streaming" => Len(batchProviders) < BATCH_SIZE
      /\ Len(flat) <= Len(submitted)
      /\ flat = SubSeq(submitted, 1, Len(flat))
      /\ \A k \in DOMAIN transactions :
           /\ transactions[k] # <<>>
           /\ Len(transactions[k]) <= BATCH_SIZE
           /\ k < Len(transactions) => Len(transactions[k]) = BATCH_SIZE
      /\ phase = "Streaming" => submitted = flat \o batchProviders
      /\ (phase = "Done" \/ Built("specialties")) => flat = submitted

\* C20 witness: the stream has ended after a full batch was handed over
\* while lines were read and a partial one at the end.
C20_Witness ==
  /\ phase = "Done"
  /\ Len(transactions) = 2
  /\ Len(transactions[1]) = BATCH_SIZE
  /\ Len(transactions[2]) < BATCH_SIZE

\* The steps of main() in program order; a run that exits early is "Aborted".
PhaseOrder ==
  <<"Start", "TaxonomyLoaded", "ExtractFound", "AwaitHeader", "Streaming",
    "Done", "SpecialtiesBuilt", "StatesBuilt", "CitiesBuilt", "Aggregated",
    "Indexed", "Finished">>

\* The place of a phase in that order, 0 for "Aborted".
PhaseRank(ph) == RankIn(PhaseOrder, ph)

AggregateTables == <<specialties, states, cities, specialty_state>>

\* C21: a run takes its phases one after the other in program order
\* (AwaitHeader, Streaming, Done, the four aggregations, the indices, the
\* stats), leaving that order only to abort before the stream is read or to
\* pass from AwaitHeader to Done on an extract with no line at all; the header
\* row is set once, by the first line, which is neither skipped nor batched,
\* so that skipped plus accepted is always the number of lines after it; the
\* aggregate tables, the indices and the stats are empty until the stream has
\* ended, and a step that writes one of them finds every accepted record
\* handed to insertBatch and the providers table holding the first record of
\* each npi; the stats are written only in the step after the indices, with
\* the four aggregate tables left as they then are.
C21_PhasesInOrder ==
  /\ [][phase' # phase =>
          \/ /\ phase' = "Aborted"
             /\ PhaseRank(phase) < PhaseRank("Streaming")
          \/ PhaseRank(phase') = PhaseRank(phase) + 1
          \/ /\ phase = "AwaitHeader"
             /\ phase' = "Done"
             /\ lineNum = 0]_vars
  /\ [][header' # header =>
          /\ phase = "AwaitHeader"
          /\ lineNum = 0
          /\ lineNum' = 1
          /\ skipped' = skipped
          /\ submitted' = submitted
          /\ batchProviders' = batchProviders]_vars
  /\ [](lineNum >= 1 => /\ header # <<>>
                        /\ skipped + Len(submitted) = lineNum - 1)
  /\ [](PhaseRank(phase) < PhaseRank("Done") =>
          /\ AggregateTables = << <<>>, <<>>, <<>>, <<>> >>
          /\ indices = {}
          /\ stats = <<>>)
  /\ [][<<AggregateTables, indices, stats>>' # <<AggregateTables, indices, stats>> =>
          /\ PhaseRank(phase) >= PhaseRank("Done")
          /\ Flatten(transactions) = submitted
          /\ providers = FirstOfEachNpi(submitted)
          /\ providers' = providers]_vars
  /\ [][stats' # stats =>
          /\ phase = "Indexed"
          /\ indices = IndexNames
          /\ AggregateTables' = AggregateTables]_vars
  /\ [][PhaseRank(phase) >= PhaseRank("Aggregated") =>
          AggregateTables' = AggregateTables]_vars
  /\ [](stats # <<>> => phase = "Finished")

\* C21 witness: a run has finished after a header, a skipped line and two
\* accepted ones, with every aggregate table and the stats written.
C21_Witness ==
  /\ phase = "Finished"
  /\ lineNum = 4
  /\ skipped = 1
  /\ Len(submitted) = 2
  /\ specialties # <<>>
  /\ states # <<>>
  /\ specialty_state # <<>>
  /\ stats # <<>>

\* The keys of the _stats table.
StatKeys == {"provider_count", "specialty_count", "state_count", "city_count"}

\* C22: when a build has finished, the _stats table holds the four keys
\* provider_count, specialty_count, state_count and city_count and no other,
\* and the value of each is the decimal text of the number of rows of
\* providers, specialties, states and cities, each table counted by its key.
C22_StatsAreRowCounts ==
  phase = "Finished" =>
    /\ DOMAIN stats = StatKeys
    /\ stats["provider_count"] =
         ToStr(Cardinality({providers[i].npi : i \in DOMAIN providers}))
    /\ stats["specialty_count"] =
         ToStr(Cardinality({specialties[i].code : i \in DOMAIN specialties}))
    /\ stats["state_count"] =
         ToStr(Cardinality({states[i].abbr : i \in DOMAIN states}))
    /\ stats["city_count"] =
         ToStr(Cardinality({cities[i].id : i \in DOMAIN cities}))

\* C22 witness: a build has finished with twenty or more providers, two
\* cities, one state and one specialty, so that the four counts differ.
C22_Witness ==
  /\ phase = "Finished"
  /\ Len(providers) >= 20
  /\ Len(cities) = 2
  /\ Len(states) = 1
  /\ stats["city_count"] = <<"2">>
  /\ stats["state_count"] = <<"1">>

\* C23: a row of the providers table is never changed nor removed once it is
\* written: every step leaves the rows already there as they are, in place,
\* whatever record is accepted later; and from the end of the stream on, the
\* aggregation, index and stats steps leave the whole table as it is.
C23_ProvidersWrittenOnce ==
  /\ [][/\ Len(providers') >= Len(providers)
        /\ \A i \in DOMAIN providers : providers'[i] = providers[i]]_vars
  /\ [][PhaseRank(phase) >= PhaseRank("Done") => providers' = providers]_vars

\* C23 witness: a build has finished in which a later accepted record bore
\* the npi of an earlier one, whose row is still as the earlier record had it.
C23_Witness ==
  /\ phase = "Finished"
  /\ Len(submitted) = 3
  /\ Len(providers) = 2
  /\ \E i, j \in DOMAIN submitted :
       /\ i < j
       /\ submitted[i].npi = submitted[j].npi
       /\ submitted[i] # submitted[j]
       /\ \E r \in DOMAIN providers : providers[r] = submitted[i]

\* Whether the text a begins the text b.
IsPrefix(a, b) == Len(a) <= Len(b) /\ SubSeq(b, 1, Len(a)) = a

\* C24: when a build has finished, the specialty_code of every providers row
\* is a key of the taxonomy map and the code of exactly one specialties row,
\* and its state is one of VALID_STATES and the abbr of exactly one states
\* row; every specialties row holds the name and the category the taxonomy
\* map gives its code, and a slug that is the slug of that name, alone or
\* followed by the '-' and code characters the duplicate-slug step appends;
\* every states row holds the name STATE_NAMES gives its abbr, and its slug;
\* no row holds what the fallback would write (a NULL category, the bare abbr).
C24_ReferencesResolve ==
  phase = "Finished" =>
    /\ \A i \in DOMAIN providers :
         /\ providers[i].specialty_code \in DOMAIN taxonomy
         /\ Cardinality({r \in DOMAIN specialties :
                           specialties[r].code = providers[i].specialty_code}) = 1
         /\ providers[i].state \in VALID_STATES
         /\ Cardinality({r \in DOMAIN states :
                           states[r].abbr = providers[i].state}) = 1
    /\ \A r \in DOMAIN specialties :
         /\ specialties[r].code \in DOMAIN taxonomy
         /\ specialties[r].name = taxonomy[specialties[r].code].name
         /\ specialties[r].category = taxonomy[specialties[r].code].category
         /\ specialties[r].category # NULL
         /\ \/ specialties[r].slug = slugify(taxonomy[specialties[r].code].name)
            \/ IsPrefix(slugify(taxonomy[specialties[r].code].name) \o <<"-">>
                          \o toLowerCase(SliceHead(specialties[r].code, 6)),
                        specialties[r].slug)
    /\ \A r \in DOMAIN states :
         /\ states[r].abbr \in DOMAIN STATE_NAMES
         /\ states[r].name = STATE_NAMES[states[r].abbr]
         /\ states[r].name # states[r].abbr
         /\ states[r].slug = slugify(STATE_NAMES[states[r].abbr])

\* C24 witness: a build has finished with providers of three taxonomy codes
\* in one state, and one specialties row renamed by the duplicate-slug step.
C24_Witness ==
  /\ phase = "Finished"
  /\ Len(specialties) = 3
  /\ Len(providers) >= 3
  /\ \E r \in DOMAIN specialties :
       specialties[r].slug # slugify(taxonomy[specialties[r].code].name)
  /\ Len(states) = 1
  /\ states[1].name = <<"C","a","l","i","f","o","r","n","i","a">>

\* The sum of provider_count over the rows of a table.
RECURSIVE SumCounts(_)
SumCounts(rows) ==
  IF rows = <<>> THEN 0 ELSE Head(rows).provider_count + SumCounts(Tail(rows))

\* C28: when a build has finished, the specialty_count of every states row
\* is the number of specialty_state rows of that state; the provider_count of
\* every specialties row is the sum of provider_count over the
\* specialty_state rows of that code; and the sum of provider_count over the
\* specialties rows, the sum over the states rows and the number of
\* providers rows are one number.
C28_CountsAgree ==
  phase = "Finished" =>
    /\ \A r \in DOMAIN states :
         states[r].specialty_count =
           Cardinality({q \in DOMAIN specialty_state :
                          specialty_state[q].state = states[r].abbr})
    /\ \A r \in DOMAIN specialties :
         specialties[r].provider_count =
           SumCounts(SelectSeq(specialty_state,
                               LAMBDA row : row.specialty_code = specialties[r].code))
    /\ SumCounts(specialties) = SumCounts(states)
    /\ SumCounts(states) = Len(providers)

\* C28 witness: a build has finished with three providers of two specialties
\* in two states, one specialty counting two providers.
C28_Witness ==
  /\ phase = "Finished"
  /\ Len(providers) = 3
  /\ Len(specialties) = 2
  /\ Len(states) = 2
  /\ Len(specialty_state) = 2
  /\ specialties[1].provider_count = 2

\* The file-name prefix and the width of the file number of each table.
PrefixOf(tableName) ==
  CASE tableName = "specialties" -> P_SPECIALTIES
    [] tableName = "states" -> P_STATES
    [] tableName = "cities" -> P_CITIES
    [] tableName = "specialty_state" -> P_SPECIALTY_STATE
    [] tableName = "providers" -> P_PROVIDERS

WidthOf(tableName) == IF tableName = "providers" THEN 5 ELSE 4

\* C25: at every point of an export, of the chunk files written for a table
\* the one numbered 1, which sorts first, holds the DROP TABLE / CREATE TABLE
\* preamble and no other file of the table does, for the tables written by
\* exportSmallTable and for providers, written by exportLargeTable; and when
\* the export has finished, every table with a row has such a first file and
\* its files replayed in filename order leave all its rows in the table.
C25_PreambleInFirstChunkOnly ==
  \A t \in ExportTables :
    /\ FilesOf(t) # {} =>
         LET names == SortedNames(FilesOf(t))
         IN  /\ names[1] = FileName(PrefixOf(t), 1, WidthOf(t))
             /\ seedFiles[names[1]].create
             /\ \A k \in 2..Len(names) : ~ seedFiles[names[k]].create
    /\ (phase = "Exported" /\ TableRows(t) # <<>>) =>
         /\ FilesOf(t) # {}
         /\ Len(Replay(seedFiles, FilesOf(t)).tables[t]) = Len(TableRows(t))

\* C25 witness: an export has finished with providers in three files and
\* specialties in two, the last file of each without the preamble.
C25_Witness ==
  /\ phase = "Exported"
  /\ Cardinality(FilesOf("providers")) = 3
  /\ Cardinality(FilesOf("specialties")) = 2
  /\ ~ seedFiles[FileName(P_PROVIDERS, 3, 5)].create
  /\ ~ seedFiles[FileName(P_SPECIALTIES, 2, 4)].create

\* What each character of a line is, read from index i on with `quoted`
\* telling whether i lies in a quoted span: a comma outside a span is a
\* "boundary"; a quote in a span followed by a quote is a "literal" quote and
\* the quote after it is "dropped"; any other quote is a "toggle"; all else,
\* a comma in a span included, is "kept".
RECURSIVE Roles(_, _, _)
Roles(line, i, quoted) ==
  IF i > Len(line) THEN <<>>
  ELSE IF line[i] = "\"" /\ quoted /\ i < Len(line) /\ line[i + 1] = "\""
    THEN <<"literal", "dropped">> \o Roles(line, i + 2, quoted)
  ELSE IF line[i] = "\"" THEN <<"toggle">> \o Roles(line, i + 1, ~ quoted)
  ELSE IF line[i] = "," /\ ~ quoted THEN <<"boundary">> \o Roles(line, i + 1, quoted)
  ELSE <<"kept">> \o Roles(line, i + 1, quoted)

\* The fields the roles give: the line cut at its boundaries, each piece
\* without its toggles and dropped quotes.
FieldsByRoles(line) ==
  LET roles == Roles(line, 1, FALSE)
      cuts  == <<0>> \o SelectSeq([i \in DOMAIN line |-> i],
                                  LAMBDA i : roles[i] = "boundary")
                     \o <<Len(line) + 1>>
  IN  [k \in 1..(Len(cuts) - 1) |->
         LET at == SelectSeq([i \in DOMAIN line |-> i],
                             LAMBDA i : /\ cuts[k] < i
                                        /\ i < cuts[k + 1]
                                        /\ roles[i] \in {"kept", "literal"})
         IN  [j \in DOMAIN at |-> line[at[j]]]]

\* A field written as a quoted span: quotes around it, its quotes doubled.
CsvQuoted(field) ==
  <<"\"">> \o Flatten([i \in DOMAIN field |->
                         IF field[i] = "\"" THEN <<"\"", "\"">> ELSE <<field[i]>>])
           \o <<"\"">>

\* Texts joined by commas.
RECURSIVE JoinComma(_)
JoinComma(texts) ==
  IF texts = <<>> THEN <<>>
  ELSE IF Len(texts) = 1 THEN texts[1]
  ELSE texts[1] \o <<",">> \o JoinComma(Tail(texts))

\* C26: whatever line parseCSVLine is called on, and whatever the call
\* before it ended in, it returns the fields in order that reading the line
\* from outside a quoted span gives: one more field than there are commas
\* outside quoted spans; each field the characters between two such commas,
\* a comma inside a span kept, a doubled quote inside a span giving one
\* quote, a single quote toggling the span and left out.  So a line without
\* quotes is split at every comma, and the fields returned, each written as
\* a quoted span and joined by commas, are parsed to themselves.
C26_ParseCSVLine ==
  phase \in {"CsvParsed", "CsvParsedAgain"} =>
    /\ csvFields = FieldsByRoles(csvLine)
    /\ Len(csvFields) =
         1 + Cardinality({i \in DOMAIN csvLine :
                            Roles(csvLine, 1, FALSE)[i] = "boundary"})
    /\ (\A i \in DOMAIN csvLine : csvLine[i] # "\"") =>
         /\ JoinComma(csvFields) = csvLine
         /\ Len(csvFields) =
              1 + Cardinality({i \in DOMAIN csvLine : csvLine[i] = ","})
    /\ parseCSVLine(JoinComma([k \in DOMAIN csvFields |-> CsvQuoted(csvFields[k])]))
         = csvFields

\* C26 witness: after a call on a line that ended inside a quoted span, a
\* call on the line  ,",""  returned an empty field and the field  ,"
C26_Witness ==
  /\ phase = "CsvParsedAgain"
  /\ csvCarry
  /\ csvLine = <<",", "\"", ",", "\"", "\"">>
  /\ csvFields = << <<>>, <<",", "\"">> >>

\* The lines of the taxonomy file, and the fields of line i, trimmed.
TaxFileLines == SplitLines(taxData)

RowField(i, k) == TrimmedField(parseCSVLine(trim(TaxFileLines[i])), k)

\* The rows that count: after the first line, not blank, with a code, of
\* section Individual.
IndividualRows ==
  { i \in DOMAIN TaxFileLines :
      /\ i >= 2
      /\ trim(TaxFileLines[i]) # <<>>
      /\ RowField(i, 0) # <<>>
      /\ RowField(i, 7) = Individual }

\* C27: the map loadTaxonomy returns has as keys exactly the codes of the
\* rows after the first line that are not blank, have a code and have
\* section 'Individual' (fields taken trimmed); each key maps to the last
\* such row of that code: its category is that row's classification, its
\* name the row's display name when there is one, else 'classification -
\* specialization' when there is a specialization, else the classification.
C27_LoadTaxonomy ==
  phase = "TaxRead" =>
    /\ DOMAIN taxonomy = { RowField(i, 0) : i \in IndividualRows }
    /\ \A i \in IndividualRows :
         (\A j \in IndividualRows : RowField(j, 0) = RowField(i, 0) => j <= i) =>
           LET entry == taxonomy[RowField(i, 0)]
           IN  /\ entry.category = RowField(i, 2)
               /\ entry.name =
                    IF RowField(i, 6) # <<>> THEN RowField(i, 6)
                    ELSE IF RowField(i, 3) # <<>>
                      THEN RowField(i, 2) \o <<" ", "-", " ">> \o RowField(i, 3)
                      ELSE RowField(i, 2)

\* C27 witness: a file whose first line reads like a row of code 208D00X,
\* followed by the two rows of code 207QA0X; the map holds the second row's
\* name for 207QA0X and nothing for 208D00X.
C27_Witness ==
  /\ phase = "TaxRead"
  /\ Len(TaxFileLines) = 3
  /\ TaxFileLines[1] = TaxRowTexts[3]
  /\ TaxFileLines[2] = TaxRowTexts[1]
  /\ TaxFileLines[3] = TaxRowTexts[2]
  /\ DOMAIN taxonomy = {T1}
  /\ taxonomy[T1].name = <<"F","a","m"," ","-"," ","P","e","d">>
  /\ taxonomy[T1].category = <<"F","a","m">>

\* The entries of a cache other than the one of a key, in their order.
OtherEntries(cache, key) == SelectSeq(cache, LAMBDA e : e.key # key)

\* A response has just been stored in a cache that was full.
StoredWhenFull ==
  /\ lastEvent'.kind = "store"
  /\ lastEvent'.full

\* What such a store leaves: the entry inserted first is gone, the others
\* are kept in their order, and the stored one is there with a fresh expiry.
OldestEvicted ==
  LET key == lastEvent'.key
  IN  /\ Head(responseCache).key # key =>
           \A i \in DOMAIN responseCache' :
             responseCache'[i].key # Head(responseCache).key
      /\ OtherEntries(responseCache', key) = OtherEntries(Tail(responseCache), key)
      /\ \E i \in DOMAIN responseCache' :
           responseCache'[i] = [key |-> key, expiry |-> now + CACHE_TTL]

\* C29: the response cache never holds more than MAX_CACHE_ENTRIES entries,
\* nor two entries of one key, whatever GET requests arrive and however their
\* waits for next() interleave, two requests for one key that both missed and
\* both store included; and a store into a full cache first evicts the entry
\* that was inserted first.
C29_CacheNeverExceedsMax ==
  /\ [](/\ Len(responseCache) <= MAX_CACHE_ENTRIES
        /\ \A i, j \in DOMAIN responseCache :
             responseCache[i].key = responseCache[j].key => i = j)
  /\ [][StoredWhenFull => OldestEvicted]_vars

\* Two requests for one key both missed and both stored, the second into a
\* full cache: its store evicted the oldest entry and overwrote its own.
C29_Witness ==
  /\ profile = "server"
  /\ lastEvent.kind = "store"
  /\ lastEvent.full
  /\ Len(responseCache) = MAX_CACHE_ENTRIES - 1
  /\ responseCache[Len(responseCache)].key = lastEvent.key

\* The request is one the limiter counts: no crawler, no static file.
Counted(req) ==
  /\ ~ req.bot
  /\ ~ startsWith(req.path, <<"/","_","a","s","t","r","o","/">>)
  /\ ~ startsWith(req.path, <<"/","f","a","v","i","c","o","n">>)

\* The limit of the request's class.
ClassLimit(req) ==
  IF startsWith(req.path, <<"/","a","p","i","/">>) THEN API_RATE_LIMIT
  ELSE PAGE_RATE_LIMIT

\* The address has a window and it has not expired.
InWindow(ip) ==
  /\ ip \in DOMAIN rateLimitMap
  /\ now <= rateLimitMap[ip].resetAt

\* What onRequest has just done with a request.
RequestAnswered ==
  LET req == lastEvent'.req
      ip  == req.ip
      newCount == IF InWindow(ip) THEN rateLimitMap[ip].count + 1 ELSE 1
  IN  IF Counted(req)
        THEN /\ rateLimitMap'[ip].count = newCount
             /\ rateLimitMap'[ip].resetAt =
                  IF InWindow(ip) THEN rateLimitMap[ip].resetAt ELSE now + RATE_WINDOW
             /\ lastEvent'.status = "429" <=> newCount > ClassLimit(req)
             /\ ~ InWindow(ip) => lastEvent'.status # "429"
        ELSE /\ lastEvent'.status # "429"
             /\ ip \in DOMAIN rateLimitMap' => rateLimitMap'[ip] = rateLimitMap[ip]

\* C30: a request of no crawler outside /_astro/ and /favicon is answered 429
\* exactly when the counter of its address, one counter for pages and /api/
\* that every such request increments, the refused ones too, exceeds after
\* the increment the limit of the request's class within the current window;
\* so in one window at most API_RATE_LIMIT /api/ requests and at most
\* PAGE_RATE_LIMIT requests in all of one address are let through; and the
\* first request after the window has expired sets the counter to 1 and is
\* let through.
C30_RateLimit ==
  /\ [][(served' = served + 1 /\ lastEvent'.kind = "request") => RequestAnswered]_vars
  /\ [](profile = "server" =>
          \A ip \in IPs : /\ passed[ip].api <= API_RATE_LIMIT
                          /\ passed[ip].all <= PAGE_RATE_LIMIT)

\* A page is refused although fewer than PAGE_RATE_LIMIT requests of its
\* address were let through: the refused /api/ requests before it counted.
C30_Witness ==
  /\ profile = "server"
  /\ lastEvent.kind = "request"
  /\ lastEvent.status = "429"
  /\ lastEvent.req.path = PathA
  /\ rateLimitMap[lastEvent.req.ip].count = PAGE_RATE_LIMIT + 1
  /\ passed[lastEvent.req.ip].all < PAGE_RATE_LIMIT
  /\ passed[lastEvent.req.ip].api = API_RATE_LIMIT

=============================================================================
